---- MODULE Spec2Model ----
(***************************************************************************)
(* Owner-isolated task store of the todo chatbot backend and the           *)
(* operations that act on it:                                              *)
(*   - the MCP tool functions        backend/src/mcp/tools.py              *)
(*   - the MCP tool boundary         backend/src/mcp/server.py             *)
(*   - the REST task routes          backend/src/routes/tasks.py           *)
(*   - the chat router               backend/src/agents/task_agent.py      *)
(*   - the chat route                backend/src/routes/chat.py            *)
(*                                                                         *)
(* Strings whose characters matter (titles, chat messages) are sequences   *)
(* of one-character strings, so that strip(), lower(), `in`, split() and   *)
(* ILIKE are computed and not assumed.                                     *)
(***************************************************************************)
EXTENDS Integers, Sequences, FiniteSets, TLC

VARIABLES tasks, nextId, last, agent, conversations, messages

vars == <<tasks, nextId, last, agent, conversations, messages>>

(***************************************************************************)
(* Bounds                                                                  *)
(***************************************************************************)
\* number of uuid4() task identities the model hands out
MaxTasks == 2

\* number of task identities handed out to chat turns
MaxChatTasks == 1

\* length the message log can grow to
MaxMessages == 2

\* the longest list of tool-call records handed to the synthesizer
MaxToolCalls == 2

\* length the message log can grow to where whole conversations are followed
MaxLog == 6

(***************************************************************************)
(* Strings                                                                 *)
(***************************************************************************)
\* Python's None for Optional[str] arguments and columns
None == <<"<None>">>

\* None for the arguments that are modelled as atomic strings
NoneStr == "<None>"

Whitespace == {" "}

UpperToLower ==
    [c \in {"A","B","D","E","H","I","K","L","M","N","O","R","T","U"} |->
        CASE c = "A" -> "a" [] c = "B" -> "b" [] c = "D" -> "d"
          [] c = "E" -> "e" [] c = "H" -> "h" [] c = "I" -> "i"
          [] c = "K" -> "k" [] c = "L" -> "l" [] c = "M" -> "m"
          [] c = "N" -> "n" [] c = "O" -> "o" [] c = "R" -> "r"
          [] c = "T" -> "t" [] c = "U" -> "u"]

LowerChar(c) == IF c \in DOMAIN UpperToLower THEN UpperToLower[c] ELSE c

\* str.lower()
Lower(s) == [i \in 1..Len(s) |-> LowerChar(s[i])]

RECURSIVE LStrip(_)
LStrip(s) ==
    IF s = <<>> THEN s
    ELSE IF Head(s) \in Whitespace THEN LStrip(Tail(s)) ELSE s

RECURSIVE RStrip(_)
RStrip(s) ==
    IF s = <<>> THEN s
    ELSE IF s[Len(s)] \in Whitespace THEN RStrip(SubSeq(s, 1, Len(s) - 1)) ELSE s

\* str.strip()
Strip(s) == RStrip(LStrip(s))

\* Python's `sub in s`
Contains(sub, s) ==
    \E i \in 0..(Len(s) - Len(sub)) : SubSeq(s, i + 1, i + Len(sub)) = sub

\* str.startswith()
StartsWith(s, prefix) ==
    Len(prefix) <= Len(s) /\ SubSeq(s, 1, Len(prefix)) = prefix

\* Task.title.ilike(f"%{title}%"): the title is spliced into a LIKE pattern,
\* so `_` in it matches any one character; letters compare case-insensitively
ILike(title, value) ==
    \E i \in 0..(Len(value) - Len(title)) :
        \A k \in 1..Len(title) :
            \/ title[k] = "_"
            \/ LowerChar(title[k]) = LowerChar(value[i + k])

(***************************************************************************)
(* Identities                                                              *)
(***************************************************************************)
Users == {"u1", "u2"}

\* str(uuid) of the identities uuid4() hands out, in order of creation
IdStrTable == <<"t1", "t2", "t3", "t4", "t5", "t6">>

\* str(task.id)
IdStr(i) == IdStrTable[i]

\* UUID(task_id): 0 stands for the ValueError of a malformed identity
ParseUUID(s) ==
    IF \E i \in 1..Len(IdStrTable) : IdStrTable[i] = s
    THEN CHOOSE i \in 1..Len(IdStrTable) : IdStrTable[i] = s
    ELSE 0

(***************************************************************************)
(* Task rows                                                               *)
(***************************************************************************)
\* the attributes class Task declares; updated_at is filled by the same
\* default factory as created_at and is assigned nowhere afterwards
TaskAttrs == {"id", "user_id", "title", "description", "completed",
              "created_at", "updated_at"}

\* Task(user_id=..., title=...) with the declared defaults; keyword
\* arguments that are not declared attributes (due_date) are not stored
Task(id, user_id, title, description) ==
    [id |-> id, user_id |-> user_id, title |-> title,
     description |-> description, completed |-> FALSE, created_at |-> id]

RECURSIVE OrderByCreatedAtDesc(_)
\* .order_by(Task.created_at.desc())
OrderByCreatedAtDesc(S) ==
    IF S = {} THEN <<>>
    ELSE LET newest == CHOOSE t \in S : \A o \in S : o.created_at <= t.created_at
         IN  <<newest>> \o OrderByCreatedAtDesc(S \ {newest})

(***************************************************************************)
(* Outcomes of one call                                                    *)
(***************************************************************************)
Ok(store, ret) == [exc |-> "ok", msg |-> "", store |-> store, ret |-> ret]

Raise(exc, msg, store) == [exc |-> exc, msg |-> msg, store |-> store, ret |-> <<>>]

MsgNotFound == "Task not found or access denied"

\* the error kinds of the specification, read off the raised exception
IsNotFound(r) == r.exc = "ValueError" /\ r.msg = MsgNotFound

IsInvalidArgument(r) == r.exc = "ValueError" /\ r.msg # MsgNotFound

(***************************************************************************)
(* Inputs                                                                  *)
(***************************************************************************)
S_Milk == <<"M","i","l","k">>

S_milk == <<"m","i","l","k">>

S_tea_padded == <<" ","t","e","a"," ">>

S_blank == <<" ">>

S_wild == <<"_","_","_">>

S_nonexistent == <<"n","o","n","e","x","i","s","t","e","n","t">>

\* titles offered to add_task and as new titles
TitleInputs == {<<>>, S_blank, S_Milk, S_tea_padded}

\* titles offered for looking a task up
LookupInputs == {<<>>, S_milk, S_wild, S_nonexistent}

\* task_id strings offered by callers
TaskIdInputs == {IdStr(i) : i \in 1..MaxTasks} \cup {"not-a-uuid"}

D_date == "2025-01-15"

D_datetime == "2025-01-15T10:30:00Z"

D_tomorrow == "tomorrow"

DueDateInputs == {D_date, D_tomorrow}

S_note == <<"n","o","t","e">>

StatusInputs == {NoneStr, "all", "pending", "complete", "completed"}

\* datetime.fromisoformat(due_date.replace("Z", "+00:00")) does not raise
FromIsoFormatOk(d) == d \in {D_date, D_datetime}

\* datetime.strptime(due_date, "%Y-%m-%d") does not raise
StrptimeOk(d) == d = D_date

(***************************************************************************)
(* backend/src/mcp/tools.py                                                *)
(***************************************************************************)
\* _serialize_task reads task.due_date, an attribute class Task does not
\* declare: the read raises AttributeError before a dictionary is built
serialize_task(task) ==
    IF "due_date" \in TaskAttrs
    THEN [exc |-> "ok", msg |-> "",
          dict |-> [id |-> IdStr(task.id), user_id |-> task.user_id,
                    title |-> task.title, description |-> task.description,
                    completed |-> task.completed]]
    ELSE [exc |-> "AttributeError", msg |-> "'Task' object has no attribute 'due_date'",
          dict |-> [id |-> IdStr(task.id), user_id |-> task.user_id,
                    title |-> task.title, description |-> task.description,
                    completed |-> task.completed]]

\* {"success": True, "task_id": ..., "task": _serialize_task(task)} after the
\* commit of store
TaskResult(store, task) ==
    LET s == serialize_task(task)
    IN  IF s.exc # "ok" THEN Raise(s.exc, s.msg, store)
        ELSE Ok(store, <<s.dict>>)

\* add_task(db, user_id, title, due_date); fresh is the uuid4() default of id
add_task(store, fresh, user_id, title, due_date) ==
    IF title = <<>> \/ Strip(title) = <<>>
    THEN Raise("ValueError", "Task title is required", store)
    ELSE IF /\ due_date # NoneStr /\ due_date # ""
            /\ ~FromIsoFormatOk(due_date) /\ ~StrptimeOk(due_date)
    THEN Raise("ValueError", "Invalid due_date format", store)
    ELSE LET task == Task(fresh, user_id, Strip(title), None)
         IN  TaskResult(store \cup {task}, task)

\* the rows the query of list_tasks selects, newest first
list_tasks_query(store, user_id, status) ==
    OrderByCreatedAtDesc(
        {t \in store :
            /\ t.user_id = user_id
            /\ status = "pending" => t.completed = FALSE
            /\ status = "complete" => t.completed = TRUE})

\* list_tasks(db, user_id, status)
list_tasks(store, user_id, status) ==
    LET rows == list_tasks_query(store, user_id, status)
        ser  == [i \in 1..Len(rows) |-> serialize_task(rows[i])]
    IN  IF \E i \in 1..Len(rows) : ser[i].exc # "ok"
        THEN LET i == CHOOSE j \in 1..Len(rows) :
                          ser[j].exc # "ok" /\ \A k \in 1..(j - 1) : ser[k].exc = "ok"
             IN  Raise(ser[i].exc, ser[i].msg, store)
        ELSE Ok(store, [i \in 1..Len(rows) |-> ser[i].dict])

\* select(Task).where(Task.id == parsed_task_id, Task.user_id == user_id)
SelectByIdAndUser(store, parsed_task_id, user_id) ==
    {t \in store : t.id = parsed_task_id /\ t.user_id = user_id}

\* complete_task(db, user_id, task_id)
complete_task(store, user_id, task_id) ==
    IF ParseUUID(task_id) = 0
    THEN Raise("ValueError", "Invalid task_id format", store)
    ELSE LET found == SelectByIdAndUser(store, ParseUUID(task_id), user_id)
         IN  IF found = {}
             THEN Raise("ValueError", MsgNotFound, store)
             ELSE LET task    == CHOOSE t \in found : TRUE
                      updated == [task EXCEPT !.completed = TRUE]
                  IN  TaskResult((store \ {task}) \cup {updated}, updated)

\* `task.due_date = <parsed>`: both attempts end in ValueError when the
\* string does not parse and also when the attribute cannot be assigned
\* (class Task declares no due_date, and assigning an undeclared attribute
\* of a model raises ValueError)
AssignDueDateFails(due_date) ==
    /\ ~FromIsoFormatOk(due_date) \/ "due_date" \notin TaskAttrs
    /\ ~StrptimeOk(due_date) \/ "due_date" \notin TaskAttrs

\* update_task with the task rebuilt from its columns instead of edited in
\* place: the rebuilt row starts as a new task does, not completed
update_task_rebuilds_task(store, user_id, task_id, title, due_date) ==
    IF ParseUUID(task_id) = 0
    THEN Raise("ValueError", "Invalid task_id format", store)
    ELSE LET found == SelectByIdAndUser(store, ParseUUID(task_id), user_id)
         IN  IF found = {}
             THEN Raise("ValueError", MsgNotFound, store)
             ELSE LET task == CHOOSE t \in found : TRUE
                  IN  IF title # None /\ Strip(title) = <<>>
                      THEN Raise("ValueError", "Task title cannot be empty", store)
                      ELSE LET dirty == Task(task.id, task.user_id,
                                             IF title # None THEN Strip(title) ELSE task.title,
                                             task.description)
                           IN  IF due_date # NoneStr /\ AssignDueDateFails(due_date)
                               THEN Raise("ValueError", "Invalid due_date format", store)
                               ELSE TaskResult((store \ {task}) \cup {dirty}, dirty)

\* update_task with the session committed as soon as the title is assigned
update_task_commits_title_first(store, user_id, task_id, title, due_date) ==
    IF ParseUUID(task_id) = 0
    THEN Raise("ValueError", "Invalid task_id format", store)
    ELSE LET found == SelectByIdAndUser(store, ParseUUID(task_id), user_id)
         IN  IF found = {}
             THEN Raise("ValueError", MsgNotFound, store)
             ELSE LET task == CHOOSE t \in found : TRUE
                  IN  IF title # None /\ Strip(title) = <<>>
                      THEN Raise("ValueError", "Task title cannot be empty", store)
                      ELSE LET dirty == IF title # None
                                        THEN [task EXCEPT !.title = Strip(title)]
                                        ELSE task
                           IN  IF due_date # NoneStr /\ AssignDueDateFails(due_date)
                               THEN Raise("ValueError", "Invalid due_date format",
                                          (store \ {task}) \cup {dirty})
                               ELSE TaskResult((store \ {task}) \cup {dirty}, dirty)

\* update_task(db, user_id, task_id, title, due_date)
update_task(store, user_id, task_id, title, due_date) ==
    IF ParseUUID(task_id) = 0
    THEN Raise("ValueError", "Invalid task_id format", store)
    ELSE LET found == SelectByIdAndUser(store, ParseUUID(task_id), user_id)
         IN  IF found = {}
             THEN Raise("ValueError", MsgNotFound, store)
             ELSE LET task == CHOOSE t \in found : TRUE
                  IN  IF title # None /\ Strip(title) = <<>>
                      THEN Raise("ValueError", "Task title cannot be empty", store)
                      ELSE LET dirty == IF title # None
                                        THEN [task EXCEPT !.title = Strip(title)]
                                        ELSE task
                           IN  IF due_date # NoneStr /\ AssignDueDateFails(due_date)
                               THEN \* raised before db.commit(): dirty is discarded
                                    Raise("ValueError", "Invalid due_date format", store)
                               ELSE TaskResult((store \ {task}) \cup {dirty}, dirty)

\* delete_task with the title lookup missing its Task.user_id == user_id
delete_task_any_owner(store, user_id, task_id, title) ==
    IF (task_id = NoneStr \/ task_id = "") /\ (title = None \/ title = <<>>)
    THEN Raise("ValueError", "Either task_id or title must be provided", store)
    ELSE IF task_id # NoneStr /\ task_id # "" /\ ParseUUID(task_id) = 0
    THEN Raise("ValueError", "Invalid task_id format", store)
    ELSE LET found ==
                 IF task_id # NoneStr /\ task_id # ""
                 THEN SelectByIdAndUser(store, ParseUUID(task_id), user_id)
                 ELSE {t \in store : ILike(title, t.title)}
         IN  IF found = {}
             THEN Raise("ValueError", MsgNotFound, store)
             ELSE IF Cardinality(found) > 1
             THEN Raise("MultipleResultsFound", "Multiple rows were found when one or none was required", store)
             ELSE LET task == CHOOSE t \in found : TRUE
                  IN  Ok(store \ {task},
                         <<[task_id |-> IdStr(task.id), status |-> "deleted",
                            title |-> task.title]>>)

\* delete_task(db, user_id, task_id, title)
delete_task(store, user_id, task_id, title) ==
    IF (task_id = NoneStr \/ task_id = "") /\ (title = None \/ title = <<>>)
    THEN Raise("ValueError", "Either task_id or title must be provided", store)
    ELSE IF task_id # NoneStr /\ task_id # "" /\ ParseUUID(task_id) = 0
    THEN Raise("ValueError", "Invalid task_id format", store)
    ELSE LET found ==
                 IF task_id # NoneStr /\ task_id # ""
                 THEN SelectByIdAndUser(store, ParseUUID(task_id), user_id)
                 ELSE {t \in store : ILike(title, t.title) /\ t.user_id = user_id}
         IN  \* result.scalar_one_or_none()
             IF found = {}
             THEN Raise("ValueError", MsgNotFound, store)
             ELSE IF Cardinality(found) > 1
             THEN Raise("MultipleResultsFound", "Multiple rows were found when one or none was required", store)
             ELSE LET task == CHOOSE t \in found : TRUE
                  IN  Ok(store \ {task},
                         <<[task_id |-> IdStr(task.id), status |-> "deleted",
                            title |-> task.title]>>)

(***************************************************************************)
(* backend/src/routes/tasks.py                                             *)
(***************************************************************************)
HTTP(status, detail, store) == Raise(status, detail, store)

\* TaskResponse.from_orm(task): reads declared attributes only
TaskResponse(task) ==
    [id |-> IdStr(task.id), user_id |-> task.user_id, title |-> task.title,
     description |-> task.description, completed |-> task.completed]

\* GET /api/tasks
route_list_tasks(store, current_user_id) ==
    LET rows == OrderByCreatedAtDesc({t \in store : t.user_id = current_user_id})
    IN  Ok(store, [i \in 1..Len(rows) |-> TaskResponse(rows[i])])

\* POST /api/tasks; TaskCreate.title has min_length=1
route_create_task(store, fresh, current_user_id, title, description) ==
    IF title = <<>>
    THEN HTTP("HTTP422", "validation error", store)
    ELSE IF Strip(title) = <<>>
    THEN HTTP("HTTP400", "Title is required", store)
    ELSE LET task == Task(fresh, current_user_id, Strip(title),
                          IF description # None /\ description # <<>>
                          THEN Strip(description) ELSE None)
         IN  Ok(store \cup {task}, <<TaskResponse(task)>>)

\* select(Task).where(Task.id == task_id), then the two checks every
\* item route makes; task_id is a UUID path parameter
RouteLookup(store, current_user_id, task_id) ==
    IF ParseUUID(task_id) = 0
    THEN HTTP("HTTP422", "validation error", store)
    ELSE IF {t \in store : t.id = ParseUUID(task_id)} = {}
    THEN HTTP("HTTP404", "Task not found", store)
    ELSE LET task == CHOOSE t \in store : t.id = ParseUUID(task_id)
         IN  IF task.user_id # current_user_id
             THEN HTTP("HTTP403", "Not authorized to access this task", store)
             ELSE Ok(store, <<task>>)

\* GET /api/tasks/{task_id}
route_get_task(store, current_user_id, task_id) ==
    LET l == RouteLookup(store, current_user_id, task_id)
    IN  IF l.exc # "ok" THEN l ELSE Ok(store, <<TaskResponse(l.ret[1])>>)

\* PUT /api/tasks/{task_id}; TaskUpdate.title has min_length=1
route_update_task(store, current_user_id, task_id, title, description) ==
    IF title = <<>>
    THEN HTTP("HTTP422", "validation error", store)
    ELSE
    LET l == RouteLookup(store, current_user_id, task_id)
    IN  IF l.exc # "ok" THEN l
        ELSE IF title # None /\ Strip(title) = <<>>
        THEN HTTP("HTTP400", "Title is required", store)
        ELSE LET task  == l.ret[1]
                 t1    == IF title # None
                          THEN [task EXCEPT !.title = Strip(title)] ELSE task
                 t2    == IF description # None
                          THEN [t1 EXCEPT !.description =
                                   IF description # <<>> THEN Strip(description) ELSE None]
                          ELSE t1
             IN  Ok((store \ {task}) \cup {t2}, <<TaskResponse(t2)>>)

\* DELETE /api/tasks/{task_id}
route_delete_task(store, current_user_id, task_id) ==
    LET l == RouteLookup(store, current_user_id, task_id)
    IN  IF l.exc # "ok" THEN l ELSE Ok(store \ {l.ret[1]}, <<>>)

\* PATCH /api/tasks/{task_id}/complete; completed is the body's field:
\* "true", "false", or NoneStr when it is missing or not a boolean
route_toggle_task_complete(store, current_user_id, task_id, completed) ==
    IF ParseUUID(task_id) = 0
    THEN HTTP("HTTP422", "validation error", store)
    ELSE IF completed = NoneStr
    THEN HTTP("HTTP400", "'completed' field is required and must be a boolean", store)
    ELSE LET l == RouteLookup(store, current_user_id, task_id)
         IN  IF l.exc # "ok" THEN l
             ELSE LET task == l.ret[1]
                      t1   == [task EXCEPT !.completed = (completed = "true")]
                  IN  Ok((store \ {task}) \cup {t1}, <<TaskResponse(t1)>>)

(***************************************************************************)
(* backend/src/mcp/server.py                                               *)
(***************************************************************************)
ToolNames == {"add_task", "list_tasks", "complete_task", "update_task", "delete_task"}

TokenInputs == {"jwt-u1", "jwt-u2", "jwt-forged"}

\* verify_token(token): the user the credential was issued to, or NoneStr
\* when the credential is not valid
verify_token(token) ==
    CASE token = "jwt-u1" -> "u1"
      [] token = "jwt-u2" -> "u2"
      [] OTHER -> NoneStr

\* str(e) of the exceptions that call_tool wraps
ToolExecutionFailed(r) ==
    CASE r.exc = "KeyError" /\ r.msg = "'title'" -> "Tool execution failed: 'title'"
      [] r.exc = "KeyError" /\ r.msg = "'task_id'" -> "Tool execution failed: 'task_id'"
      [] r.exc = "AttributeError" ->
             "Tool execution failed: 'Task' object has no attribute 'due_date'"
      [] OTHER -> "Tool execution failed: Multiple rows were found when one or none was required"

\* the body of `async with get_db_context() as db`: arguments holds NoneStr
\* or None for a key the request does not carry
call_tool_body(store, fresh, name, user_id, tool_args) ==
    CASE name = "add_task" ->
             IF tool_args.title = None
             THEN Raise("KeyError", "'title'", store)
             ELSE add_task(store, fresh, user_id, tool_args.title, tool_args.due_date)
      [] name = "list_tasks" ->
             list_tasks(store, user_id, tool_args.status)
      [] name = "complete_task" ->
             IF tool_args.task_id = NoneStr
             THEN Raise("KeyError", "'task_id'", store)
             ELSE complete_task(store, user_id, tool_args.task_id)
      [] name = "update_task" ->
             IF tool_args.task_id = NoneStr
             THEN Raise("KeyError", "'task_id'", store)
             ELSE update_task(store, user_id, tool_args.task_id, tool_args.title,
                              tool_args.due_date)
      [] name = "delete_task" ->
             IF tool_args.task_id = NoneStr
             THEN Raise("KeyError", "'task_id'", store)
             ELSE delete_task(store, user_id, tool_args.task_id, None)
      [] OTHER -> Raise("ValueError", "Unknown tool", store)

\* call_tool(name, arguments)
call_tool(store, fresh, name, arguments) ==
    IF arguments.token = NoneStr \/ arguments.token = ""
    THEN Raise("ValueError", "Authentication token is required", store)
    ELSE IF verify_token(arguments.token) = NoneStr
    THEN Raise("ValueError", "Invalid token", store)
    ELSE LET r == call_tool_body(store, fresh, name, verify_token(arguments.token),
                                 arguments)
         IN  \* get_db_context: what the tool committed stays; the rest of the
             \* session is rolled back when the body raised
             IF r.exc = "ok" \/ r.exc = "ValueError"
             THEN r
             ELSE Raise("ValueError", ToolExecutionFailed(r), r.store)

(***************************************************************************)
(* backend/src/db.py: what happens to the session of one call               *)
(***************************************************************************)
\* get_db_context(): the session is acquired, the body runs and makes its
\* own calls on the session, then the session is committed when the body
\* returned or rolled back when it raised, and closed in either case
get_db_context(body_ops, body_raised) ==
    <<"acquire">> \o body_ops
        \o (IF body_raised THEN <<"rollback">> ELSE <<"commit">>)
        \o <<"close">>

\* the tables the model keeps, in the order init_db drops them
DropOrder == <<"messages", "conversations", "tasks">>

\* init_db with the tables only created when missing, as ensure_tables_exist
\* does: nothing is dropped
init_db_keeps_tables(store, convs, msgs, drops) ==
    [tasks |-> store, conversations |-> convs, messages |-> msgs,
     completed |-> drops = Len(DropOrder)]

\* init_db(): the tables are dropped one by one and recreated empty. drops is
\* the number of DROP statements that took effect: all of them when the block
\* completed; fewer when it raised (connection failure, the 30 s timeout), in
\* which case the error is logged and startup goes on, with none dropped
\* where the statements of the block are rolled back together
init_db(store, convs, msgs, drops) ==
    [tasks |-> IF drops >= 3 THEN {} ELSE store,
     conversations |-> IF drops >= 2 THEN {} ELSE convs,
     messages |-> IF drops >= 1 THEN <<>> ELSE msgs,
     completed |-> drops = Len(DropOrder)]

\* the calls a tool function makes on the session that end a transaction:
\* add_task, complete_task, update_task and delete_task call db.commit()
\* once their checks have passed, before the answer is built; list_tasks
\* only reads
ToolSessionOps(name, r) ==
    IF /\ name \in {"add_task", "complete_task", "update_task", "delete_task"}
       /\ r.exc \in {"ok", "AttributeError"}
    THEN <<"commit">>
    ELSE <<>>

\* the session of call_tool(name, arguments): none is opened for a request
\* that is refused for its token
call_tool_session(store, fresh, name, arguments) ==
    IF arguments.token = NoneStr \/ arguments.token = ""
          \/ verify_token(arguments.token) = NoneStr
    THEN <<>>
    ELSE LET r == call_tool_body(store, fresh, name, verify_token(arguments.token),
                                 arguments)
         IN  get_db_context(ToolSessionOps(name, r), r.exc # "ok")

(***************************************************************************)
(* Strings of the chat                                                     *)
(***************************************************************************)
S_to == <<" ","t","o"," ">>

S_rename == <<"r","e","n","a","m","e">>

S_update == <<"u","p","d","a","t","e">>

\* the greetings process_message answers itself
Greetings == {<<"h","i">>, <<"h","e","l","l","o">>, <<"h","e","y">>,
              <<"s","a","l","a","m">>, <<"a","s","s","a","l","a","m">>}

M_hi == <<"h","i">>

M_Hello_padded == <<" ","H","e","l","l","o"," ">>

M_rename_milk_to_tea == <<"r","e","n","a","m","e"," ","m","i","l","k"," ","t","o"," ","t","e","a">>

M_update_Milk_to_quoted_Tea == <<"u","p","d","a","t","e"," ","M","i","l","k"," ","t","o"," ","'","T","e","a","'">>

M_rename_milk_TO_tea == <<"r","e","n","a","m","e"," ","m","i","l","k"," ","T","O"," ","t","e","a">>

M_rename_eggs_to_tea_to_go == <<"r","e","n","a","m","e"," ","e","g","g","s"," ","t","o"," ","t","e","a"," ","t","o"," ","g","o">>

M_add_Milk == <<"a","d","d"," ","M","i","l","k">>

M_delete_nonexistent_task == <<"d","e","l","e","t","e"," ","n","o","n","e","x","i","s","t","e","n","t"," ","t","a","s","k">>

\* the messages users send
ChatInputs == {M_hi, M_Hello_padded, M_rename_milk_to_tea, M_update_Milk_to_quoted_Tea,
               M_rename_milk_TO_tea, M_rename_eggs_to_tea_to_go, M_add_Milk,
               M_delete_nonexistent_task, S_blank}

\* s.find(sub) + 1: the position of the first occurrence, 0 when there is none
Find(sub, s) ==
    IF Contains(sub, s)
    THEN CHOOSE i \in 1..(Len(s) - Len(sub) + 1) :
            /\ SubSeq(s, i, i + Len(sub) - 1) = sub
            /\ \A j \in 1..(i - 1) : SubSeq(s, j, j + Len(sub) - 1) # sub
    ELSE 0

\* the position of the last occurrence of sub in s, 0 when there is none
FindLast(sub, s) ==
    IF Contains(sub, s)
    THEN CHOOSE i \in 1..(Len(s) - Len(sub) + 1) :
            /\ SubSeq(s, i, i + Len(sub) - 1) = sub
            /\ \A j \in (i + 1)..(Len(s) - Len(sub) + 1) : SubSeq(s, j, j + Len(sub) - 1) # sub
    ELSE 0

\* s.rsplit(sep, 1): the split at the last occurrence instead of the first
SplitFirst_last_occurrence(s, sep) ==
    IF FindLast(sep, s) = 0 THEN <<s>>
    ELSE <<SubSeq(s, 1, FindLast(sep, s) - 1), SubSeq(s, FindLast(sep, s) + Len(sep), Len(s))>>

\* s.split(sep, 1)
SplitFirst(s, sep) ==
    IF Find(sep, s) = 0 THEN <<s>>
    ELSE <<SubSeq(s, 1, Find(sep, s) - 1), SubSeq(s, Find(sep, s) + Len(sep), Len(s))>>

RECURSIVE LStripChars(_, _)
LStripChars(s, chars) ==
    IF s = <<>> THEN s
    ELSE IF Head(s) \in chars THEN LStripChars(Tail(s), chars) ELSE s

RECURSIVE RStripChars(_, _)
RStripChars(s, chars) ==
    IF s = <<>> THEN s
    ELSE IF s[Len(s)] \in chars THEN RStripChars(SubSeq(s, 1, Len(s) - 1), chars) ELSE s

\* s.strip(chars)
StripChars(s, chars) == RStripChars(LStripChars(s, chars), chars)

(***************************************************************************)
(* backend/src/mcp/task_server.py: the executor `mcp_server` that the chat  *)
(* route and the agent call.  It is written down from sections 4.2, 6 and  *)
(* 9 of the specification: owner-scoped operations, targets found by       *)
(* case-insensitive substring of the title, domain errors raised.          *)
(***************************************************************************)
NoToolArgs ==
    [user_id |-> NoneStr, title |-> None, current_title |-> None,
     description |-> None, status |-> NoneStr]

\* the JSON object an operation answers with for one task
ToolResult(status, task) ==
    [status |-> status, task_id |-> IdStr(task.id), title |-> task.title,
     description |-> task.description, completed |-> task.completed]

\* the owner's tasks whose title contains the given one, letter case ignored
TitleMatches(store, owner, title) ==
    IF title = None \/ title = <<>> THEN {}
    ELSE {t \in store : t.user_id = owner /\ Contains(Lower(title), Lower(t.title))}

\* the task t with the supplied fields of an update applied
Edited(t, arguments) ==
    LET t1 == IF arguments.title # None
              THEN [t EXCEPT !.title = Strip(arguments.title)] ELSE t
    IN  IF arguments.description # None
        THEN [t1 EXCEPT !.description = arguments.description] ELSE t1

\* the store with t replaced by t2, answered with t2
Replaced(store, t, status, t2) ==
    Ok((store \ {t}) \cup {t2}, <<ToolResult(status, t2)>>)

\* mcp_server.call_tool(name, arguments): every outcome the call can have;
\* with several matching tasks the store decides which one comes first
mcp_server_call_tool(store, fresh, name, arguments) ==
    LET owner == arguments.user_id
    IN  CASE name = "add_task" ->
                IF arguments.title = None \/ Strip(arguments.title) = <<>>
                THEN {Raise("InvalidArgument", "Task title is required", store)}
                ELSE LET task == Task(fresh, owner, Strip(arguments.title),
                                      arguments.description)
                     IN  {Ok(store \cup {task}, <<ToolResult("created", task)>>)}
          [] name = "list_tasks" ->
                LET rows == OrderByCreatedAtDesc(
                                {t \in store :
                                    /\ t.user_id = owner
                                    /\ arguments.status = "pending" => ~t.completed
                                    /\ arguments.status = "completed" => t.completed})
                IN  {Ok(store, [i \in 1..Len(rows) |-> ToolResult("listed", rows[i])])}
          [] name = "update_task" ->
                LET found == TitleMatches(store, owner, arguments.current_title)
                IN  IF found = {}
                    THEN {Raise("NotFound", "Task not found", store)}
                    ELSE IF arguments.title # None /\ Strip(arguments.title) = <<>>
                    THEN {Raise("InvalidArgument", "Task title cannot be empty", store)}
                    ELSE {Replaced(store, t, "updated", Edited(t, arguments)) : t \in found}
          [] name = "delete_task" ->
                LET found == TitleMatches(store, owner, arguments.title)
                IN  IF found = {}
                    THEN {Raise("NotFound", "Task not found", store)}
                    ELSE {Ok(store \ {t}, <<ToolResult("deleted", t)>>) : t \in found}
          [] name = "complete_task" ->
                LET found == TitleMatches(store, owner, arguments.title)
                IN  IF found = {}
                    THEN {Raise("NotFound", "Task not found", store)}
                    ELSE {Replaced(store, t, "completed", [t EXCEPT !.completed = TRUE])
                          : t \in found}
          [] OTHER -> {Raise("InvalidArgument", "Unknown tool", store)}

(***************************************************************************)
(* backend/src/agents/task_agent.py                                        *)
(***************************************************************************)
\* TaskAgent(): api_key is whether GROQ_API_KEY is set; client is the lazily
\* built Groq client, "None" until the first successful construction
TaskAgent(api_key) == [api_key |-> api_key, client |-> "None"]

\* is_configured()
is_configured(a) == a.api_key

\* what the provider does with one request
\*   client_error  Groq(api_key=...) raises, no client is built
\*   raise         chat.completions.create raises (timeout, transport)
\*   reply         a message with content and tool calls
ToolCall(name, arguments) ==
    [name |-> name, arguments |-> arguments @@ NoToolArgs, malformed |-> FALSE]

\* a proposed call whose arguments string is not JSON
MalformedToolCall(name) == [name |-> name, arguments |-> NoToolArgs, malformed |-> TRUE]

\* str(e) of the JSONDecodeError of json.loads(tool_call.function.arguments)
MsgJSONDecodeError == "Expecting value: line 1 column 1 (char 0)"

S_sure == <<"Sure!">>

ProviderOutcomes ==
    {[kind |-> "client_error", content |-> <<>>, tool_calls |-> <<>>],
     [kind |-> "raise", content |-> <<>>, tool_calls |-> <<>>],
     [kind |-> "reply", content |-> S_sure, tool_calls |-> <<>>],
     [kind |-> "reply", content |-> <<>>,
      tool_calls |-> <<ToolCall("add_task", [title |-> S_Milk, user_id |-> "u2"])>>],
     [kind |-> "reply", content |-> S_sure,
      tool_calls |-> <<ToolCall("delete_task", [title |-> S_nonexistent])>>],
     [kind |-> "reply", content |-> <<>>,
      tool_calls |-> <<ToolCall("complete_task", [title |-> S_milk]),
                       ToolCall("list_tasks", [status |-> "all"])>>],
     [kind |-> "reply", content |-> <<>>,
      tool_calls |-> <<MalformedToolCall("list_tasks"),
                       ToolCall("delete_task", [title |-> S_milk])>>]}

\* the worker process is killed while process_message awaits the provider
WorkerKilled == [kind |-> "killed", content |-> <<>>, tool_calls |-> <<>>]

\* the provider outcome written where the provider is not asked
NotAsked == [kind |-> "not_asked", content |-> <<>>, tool_calls |-> <<>>]

\* the uuid counter after a call that may have drawn one
Advance(fresh, store) == IF \E t \in store : t.id = fresh THEN fresh + 1 ELSE fresh

\* the keys of a JSON object that the agent reads, each absent
NoFields ==
    [status |-> NoneStr, task_id |-> NoneStr, title |-> None, description |-> None,
     completed |-> FALSE]

\* the values json.loads gives: an object with its keys, a list with its
\* entries, or a value that is neither
JsonDict(fields) == [type |-> "dict", fields |-> fields, items |-> <<>>]

JsonList(items) == [type |-> "list", fields |-> NoFields, items |-> items]

JsonStr == [type |-> "str", fields |-> NoFields, items |-> <<>>]

\* json.loads(result_text) of what the executor answered: list_tasks answers
\* with a list of objects, the other tools with one object
JsonLoads(name, ret) ==
    IF name = "list_tasks" THEN JsonList([i \in 1..Len(ret) |-> JsonDict(ret[i])])
    ELSE IF Len(ret) = 1 THEN JsonDict(ret[1])
    ELSE JsonDict(NoFields)

\* one executed invocation, as the agent records it in tool_calls
ToolCallRecord(name, arguments, r) ==
    [tool |-> name, arguments |-> arguments, result |-> JsonLoads(name, r.ret)]

\* one invocation of the executor, whatever its outcome
Invocation(name, arguments, r) ==
    [tool |-> name, arguments |-> arguments, exc |-> r.exc]

\* the arguments of a proposed call with a user_id the model supplied left
\* as it is
InjectOwner_keeps_proposed(function_args, user_id) ==
    IF function_args.user_id # NoneStr THEN function_args
    ELSE [function_args EXCEPT !.user_id = user_id]

\* function_args["user_id"] = user_id
InjectOwner(function_args, user_id) ==
    [function_args EXCEPT !.user_id = user_id]

RECURSIVE RunToolCalls_continues(_, _, _, _)
\* the loop with a raising call skipped and the calls after it still executed
RunToolCalls_continues(store, fresh, user_id, calls) ==
    IF calls = <<>>
    THEN {[exc |-> "ok", msg |-> "", store |-> store, fresh |-> fresh,
           tool_calls |-> <<>>, invocations |-> <<>>]}
    ELSE IF Head(calls).malformed
    THEN {[rest EXCEPT !.exc = "JSONDecodeError", !.msg = MsgJSONDecodeError,
                       !.tool_calls = <<>>]
          : rest \in RunToolCalls_continues(store, fresh, user_id, Tail(calls))}
    ELSE LET function_name == Head(calls).name
             function_args == InjectOwner(Head(calls).arguments, user_id)
         IN  UNION {
               IF r.exc # "ok"
               THEN {[rest EXCEPT
                        !.exc = r.exc, !.msg = r.msg, !.tool_calls = <<>>,
                        !.invocations = <<Invocation(function_name, function_args, r)>> \o @]
                     : rest \in RunToolCalls_continues(r.store, fresh, user_id, Tail(calls))}
               ELSE {[rest EXCEPT
                        !.tool_calls = IF rest.exc = "ok"
                                       THEN <<ToolCallRecord(function_name, function_args, r)>> \o @
                                       ELSE <<>>,
                        !.invocations = <<Invocation(function_name, function_args, r)>> \o @]
                     : rest \in RunToolCalls_continues(r.store, Advance(fresh, r.store),
                                                       user_id, Tail(calls))}
               : r \in mcp_server_call_tool(store, fresh, function_name, function_args)}

RECURSIVE RunToolCalls(_, _, _, _)
\* the `for tool_call in message_obj.tool_calls` loop: every run it can take
RunToolCalls(store, fresh, user_id, calls) ==
    IF calls = <<>>
    THEN {[exc |-> "ok", msg |-> "", store |-> store, fresh |-> fresh,
           tool_calls |-> <<>>, invocations |-> <<>>]}
    ELSE IF Head(calls).malformed
    THEN \* json.loads(tool_call.function.arguments) raises
         {[exc |-> "JSONDecodeError", msg |-> MsgJSONDecodeError, store |-> store,
           fresh |-> fresh, tool_calls |-> <<>>, invocations |-> <<>>]}
    ELSE LET function_name == Head(calls).name
             function_args == InjectOwner(Head(calls).arguments, user_id)
         IN  UNION {
               IF r.exc # "ok"
               THEN {[exc |-> r.exc, msg |-> r.msg, store |-> r.store, fresh |-> fresh,
                      tool_calls |-> <<>>,
                      invocations |-> <<Invocation(function_name, function_args, r)>>]}
               ELSE {[rest EXCEPT
                        !.tool_calls = <<ToolCallRecord(function_name, function_args, r)>> \o @,
                        !.invocations = <<Invocation(function_name, function_args, r)>> \o @]
                     : rest \in RunToolCalls(r.store, Advance(fresh, r.store), user_id,
                                             Tail(calls))}
               : r \in mcp_server_call_tool(store, fresh, function_name, function_args)}

\* what _generate_tool_response did: the string it returned or the exception
\* it raised
Rendered(text) == [exc |-> "ok", msg |-> "", text |-> text]

\* result.get(...) on a value that is not an object
NoGet(result) ==
    [exc |-> "AttributeError",
     msg |-> IF result.type = "list" THEN "'list' object has no attribute 'get'"
             ELSE "'str' object has no attribute 'get'",
     text |-> <<>>]

\* result.get("title", "task") of a JSON object result
ResultTitle(result) ==
    IF result.fields.title # None THEN result.fields.title ELSE <<"task">>

RECURSIVE TaskLines(_, _)
\* the numbered lines of the list_tasks rendering, from the i-th entry on;
\* an entry that is not an object is skipped and keeps its number
TaskLines(tasks_, i) ==
    IF i > Len(tasks_) THEN <<>>
    ELSE IF tasks_[i].type # "dict" THEN TaskLines(tasks_, i + 1)
    ELSE LET task == tasks_[i].fields
         IN  <<ToString(i), ". ", IF task.completed THEN "[done]" ELSE "[pending]", " ">>
                \o (IF task.title # None THEN task.title ELSE <<"Untitled">>)
                \o (IF task.description # None /\ task.description # <<>>
                    THEN <<" - ">> \o task.description ELSE <<>>)
                \o <<"\n">>
                \o TaskLines(tasks_, i + 1)

\* _generate_tool_response(tool_calls); the emoji of the texts are left out
\* and the two status glyphs are written [done] and [pending]
generate_tool_response(tool_calls) ==
    IF tool_calls = <<>> THEN Rendered(<<"I'm here to help with your tasks!">>)
    ELSE LET tool_call == tool_calls[1]
             tool_name == tool_call.tool
             result    == tool_call.result
         IN  CASE tool_name = "add_task" ->
                     IF result.type # "dict" THEN NoGet(result)
                     ELSE Rendered(<<"I've added '">> \o ResultTitle(result)
                                       \o <<"' to your task list!">>)
               [] tool_name = "list_tasks" ->
                     \* an object carries neither "data" nor "tasks" here
                     LET tasks_ == IF result.type = "list" THEN result.items ELSE <<>>
                     IN  IF tasks_ = <<>> THEN Rendered(<<"You don't have any tasks yet.">>)
                         ELSE Rendered(<<"**Your Tasks:**\n\n">> \o TaskLines(tasks_, 1))
               [] tool_name = "delete_task" ->
                     IF result.type # "dict" THEN NoGet(result)
                     ELSE Rendered(<<"I've removed '">> \o ResultTitle(result)
                                       \o <<"' from your task list.">>)
               [] tool_name = "update_task" ->
                     IF result.type # "dict" THEN NoGet(result)
                     ELSE IF result.fields.status = "updated"
                     THEN Rendered(<<"I've updated '">>
                                     \o (IF tool_call.arguments.current_title # None
                                         THEN tool_call.arguments.current_title
                                         ELSE <<"task">>)
                                     \o <<"' to '">> \o ResultTitle(result)
                                     \o <<"' successfully!">>)
                     ELSE Rendered(<<"Task not found or couldn't be updated. Please check the task name.">>)
               [] tool_name = "complete_task" ->
                     IF result.type # "dict" THEN NoGet(result)
                     ELSE Rendered(<<"Great! I've marked '">> \o ResultTitle(result)
                                       \o <<"' as completed!">>)
               [] OTHER -> Rendered(<<"Task operation completed!">>)

\* what one call of process_message did: the (response, tool_calls) it
\* returned or the exception it let out, the task table it left, every
\* invocation of the executor, the request it sent to the provider, and
\* whether it reached the call of _fallback_process
Turn(path, response, store, fresh) ==
    [exc |-> "ok", msg |-> "", response |-> response, tool_calls |-> <<>>,
     store |-> store, fresh |-> fresh, invocations |-> <<>>,
     llm_messages |-> <<>>, path |-> path, fallback |-> FALSE, client |-> "None"]

\* a turn that was not processed at all
NoTurn == Turn("None", <<>>, {}, 0)

MsgGreeting == <<"Hello! How can I help you with your tasks today?">>

MsgPleaseUseFormat == <<"Please use format: 'rename [old name] to [new name]'">>

\* str(e) of the AttributeError of `self._fallback_process`: class TaskAgent
\* defines no such method
MsgNoFallbackProcess == "'TaskAgent' object has no attribute '_fallback_process'"

MsgTimeout == "Request timed out."

\* what _handle_rename_update returns for one outcome r of update_task
RenameAnswer(r, fresh, old_part, new_title, arguments) ==
    IF r.exc # "ok"
    THEN [Turn("DirectUpdate", <<"Error updating task: ", r.msg>>, r.store, fresh)
             EXCEPT !.invocations = <<Invocation("update_task", arguments, r)>>]
    ELSE IF Len(r.ret) = 1 /\ r.ret[1].status = "updated"
    THEN [Turn("DirectUpdate",
               <<"I've updated '">> \o old_part \o <<"' to '">> \o new_title
                   \o <<"' successfully!">>,
               r.store, Advance(fresh, r.store))
             EXCEPT !.invocations = <<Invocation("update_task", arguments, r)>>,
                    !.tool_calls = <<ToolCallRecord("update_task", arguments, r)>>]
    ELSE [Turn("DirectUpdate",
               <<"Task '">> \o old_part \o <<"' not found. Please check the task name.">>,
               r.store, Advance(fresh, r.store))
             EXCEPT !.invocations = <<Invocation("update_task", arguments, r)>>]

\* old_part of _handle_rename_update: the left part without a leading
\* 'rename' or 'update'
StripKeyword(left) ==
    IF StartsWith(Lower(left), S_rename)
    THEN Strip(SubSeq(left, Len(S_rename) + 1, Len(left)))
    ELSE IF StartsWith(Lower(left), S_update)
    THEN Strip(SubSeq(left, Len(S_update) + 1, Len(left)))
    ELSE left

\* _handle_rename_update(user_id, message, mcp_server)
handle_rename_update(store, fresh, user_id, message) ==
    IF ~Contains(S_to, message)
    THEN {Turn("DirectUpdate", MsgPleaseUseFormat, store, fresh)}
    ELSE LET parts     == SplitFirst(message, S_to)
             old_part  == StripKeyword(Strip(parts[1]))
             new_title == StripChars(StripChars(Strip(parts[2]), {"\""}), {"'"})
             arguments == [user_id |-> user_id, current_title |-> old_part,
                           title |-> new_title] @@ NoToolArgs
         IN  IF old_part = <<>> \/ new_title = <<>>
             THEN {Turn("DirectUpdate", MsgPleaseUseFormat, store, fresh)}
             ELSE {RenameAnswer(r, fresh, old_part, new_title, arguments)
                   : r \in mcp_server_call_tool(store, fresh, "update_task", arguments)}

\* the answer for one run of the tool loop with tool_calls returned as None
ToolLoopAnswer_drops_records(run, llm_messages) ==
    IF run.exc # "ok"
    THEN [Turn("ModelAssisted", <<"I encountered an error: ", run.msg>>, run.store, run.fresh)
             EXCEPT !.invocations = run.invocations, !.llm_messages = llm_messages,
                    !.client = "Groq"]
    ELSE [Turn("ModelAssisted", generate_tool_response(run.tool_calls).text,
               run.store, run.fresh)
             EXCEPT !.invocations = run.invocations, !.llm_messages = llm_messages,
                    !.client = "Groq"]

\* what the try block of process_message returns for one run of the tool loop
ToolLoopAnswer(run, llm_messages) ==
    IF run.exc # "ok"
    THEN [Turn("ModelAssisted", <<"I encountered an error: ", run.msg>>, run.store, run.fresh)
             EXCEPT !.invocations = run.invocations, !.llm_messages = llm_messages,
                    !.client = "Groq"]
    ELSE IF generate_tool_response(run.tool_calls).exc # "ok"
    THEN [Turn("ModelAssisted",
               <<"I encountered an error: ", generate_tool_response(run.tool_calls).msg>>,
               run.store, run.fresh)
             EXCEPT !.invocations = run.invocations, !.llm_messages = llm_messages,
                    !.client = "Groq"]
    ELSE [Turn("ModelAssisted", generate_tool_response(run.tool_calls).text,
               run.store, run.fresh)
             EXCEPT !.invocations = run.invocations, !.tool_calls = run.tool_calls,
                    !.llm_messages = llm_messages, !.client = "Groq"]

\* the try block of process_message, lines 161-213
model_assisted(a, store, fresh, user_id, message, conversation_history, provider) ==
    LET llm_messages == <<[role |-> "system", content |-> <<"system prompt">>]>>
                            \o conversation_history
                            \o <<[role |-> "user", content |-> message]>>
    IN  IF a.client = "None" /\ provider.kind = "client_error"
        THEN \* _get_client() returned None: the call of _fallback_process
             \* raises inside the try and is reported as an error
             {[Turn("ModelAssisted", <<"I encountered an error: ", MsgNoFallbackProcess>>,
                    store, fresh) EXCEPT !.fallback = TRUE]}
        ELSE IF provider.kind = "raise"
        THEN {[Turn("ModelAssisted", <<"I encountered an error: ", MsgTimeout>>, store, fresh)
                  EXCEPT !.llm_messages = llm_messages, !.client = "Groq"]}
        ELSE IF provider.kind = "reply" /\ provider.tool_calls = <<>>
        THEN {[Turn("ModelAssisted", provider.content, store, fresh)
                  EXCEPT !.llm_messages = llm_messages, !.client = "Groq"]}
        ELSE IF provider.kind = "reply"
        THEN {ToolLoopAnswer(run, llm_messages)
              : run \in RunToolCalls(store, fresh, user_id, provider.tool_calls)}
        ELSE {}

\* the greeting test without the strip(): a padded greeting is not one
IsGreeting_unstripped(message) == Lower(message) \in Greetings

\* the message is one process_message answers itself: msg_lower is in the
\* greeting list
IsGreeting(message) == Strip(Lower(message)) \in Greetings

IsDirectUpdate(message) ==
    LET msg_lower == Strip(Lower(message))
    IN  /\ Contains(S_rename, msg_lower) \/ Contains(S_update, msg_lower)
        /\ Contains(S_to, msg_lower)

\* process_message(user_id, message, conversation_history, mcp_server) of the
\* agent a: every outcome it can have with the provider behaving as given
process_message(a, store, fresh, user_id, message, conversation_history, provider) ==
    IF IsGreeting(message)
    THEN {[Turn("Greeting", MsgGreeting, store, fresh) EXCEPT !.client = a.client]}
    ELSE IF IsDirectUpdate(message)
    THEN {[t EXCEPT !.client = a.client]
          : t \in handle_rename_update(store, fresh, user_id, message)}
    ELSE IF ~is_configured(a)
    THEN \* `return await self._fallback_process(...)`, outside the try
         {[Turn("HeuristicFallback", <<>>, store, fresh)
              EXCEPT !.exc = "AttributeError", !.msg = MsgNoFallbackProcess,
                     !.fallback = TRUE, !.client = a.client]}
    ELSE model_assisted(a, store, fresh, user_id, message, conversation_history, provider)

\* the provider is asked, or its client is built, while this message is
\* processed
AsksProvider(a, message) ==
    ~IsGreeting(message) /\ ~IsDirectUpdate(message) /\ is_configured(a)

(***************************************************************************)
(* backend/src/routes/chat.py                                              *)
(***************************************************************************)
ConvIdTable == <<"c1", "c2", "c3", "c4">>

\* get_or_create_conversation with the lookup missing its
\* Conversation.user_id == user_id
get_or_create_conversation_any_owner(convs, user_id, conversation_id, now) ==
    LET found == {c \in convs : c.id = conversation_id}
    IN  IF conversation_id # NoneStr /\ found # {}
        THEN LET c  == CHOOSE x \in found : TRUE
                 c2 == [c EXCEPT !.updated_at = now]
             IN  [conversations |-> (convs \ {c}) \cup {c2}, conversation |-> c2]
        ELSE LET c == [id |-> ConvIdTable[Cardinality(convs) + 1], user_id |-> user_id,
                       created_at |-> now, updated_at |-> now]
             IN  [conversations |-> convs \cup {c}, conversation |-> c]

\* get_or_create_conversation(db, user_id, conversation_id) at time now:
\* the conversation table afterwards and the conversation returned
get_or_create_conversation(convs, user_id, conversation_id, now) ==
    LET found == {c \in convs : c.id = conversation_id /\ c.user_id = user_id}
    IN  IF conversation_id # NoneStr /\ found # {}
        THEN LET c  == CHOOSE x \in found : TRUE
                 c2 == [c EXCEPT !.updated_at = now]
             IN  [conversations |-> (convs \ {c}) \cup {c2}, conversation |-> c2]
        ELSE LET c == [id |-> ConvIdTable[Cardinality(convs) + 1], user_id |-> user_id,
                       created_at |-> now, updated_at |-> now]
             IN  [conversations |-> convs \cup {c}, conversation |-> c]

\* save_message without its commit: the message is not in the table
save_message_not_committed(msgs, conversation_id, role, content, tool_calls) ==
    msgs

\* save_message(db, conversation_id, role, content, tool_calls)
save_message(msgs, conversation_id, role, content, tool_calls) ==
    Append(msgs, [conversation_id |-> conversation_id, role |-> role,
                  content |-> content, tool_calls |-> tool_calls,
                  created_at |-> Len(msgs) + 1])

RECURSIVE OrderByCreatedAt(_)
\* .order_by(Message.created_at)
OrderByCreatedAt(S) ==
    IF S = {} THEN <<>>
    ELSE LET oldest == CHOOSE m \in S : \A o \in S : m.created_at <= o.created_at
         IN  <<oldest>> \o OrderByCreatedAt(S \ {oldest})

\* the rows the query of get_conversation_history selects: the messages of
\* the conversation, joined to a conversation of the user
HistoryRows(convs, msgs, conversation_id, user_id) ==
    {msgs[i] : i \in {k \in 1..Len(msgs) :
        /\ msgs[k].conversation_id = conversation_id
        /\ \E c \in convs : c.id = msgs[k].conversation_id /\ c.user_id = user_id}}

\* the history with the newest message first
get_conversation_history_newest_first(convs, msgs, conversation_id, user_id) ==
    LET rows == OrderByCreatedAtDesc(HistoryRows(convs, msgs, conversation_id, user_id))
    IN  [i \in 1..Len(rows) |-> [role |-> rows[i].role, content |-> rows[i].content]]

\* get_conversation_history(db, conversation_id, user_id)
get_conversation_history(convs, msgs, conversation_id, user_id) ==
    LET rows == OrderByCreatedAt(HistoryRows(convs, msgs, conversation_id, user_id))
    IN  [i \in 1..Len(rows) |-> [role |-> rows[i].role, content |-> rows[i].content]]

\* what one request to POST /api/chat did
ChatOutcome(exc, msg, store, fresh, convs, msgs, conversation_id, turn, history) ==
    [exc |-> exc, msg |-> msg, store |-> store, fresh |-> fresh,
     conversations |-> convs, messages |-> msgs,
     conversation_id |-> conversation_id, turn |-> turn, history |-> history]

\* the rest of send_chat_message once process_message has returned or raised
AfterTurn(turn, convs, msgs, conversation_id, history) ==
    IF turn.exc # "ok"
    THEN ChatOutcome("HTTP500", "Chat failed", turn.store, turn.fresh, convs, msgs,
                     NoneStr, turn, history)
    ELSE ChatOutcome("ok", "", turn.store, turn.fresh, convs,
                     save_message(msgs, conversation_id, "assistant", turn.response,
                                  turn.tool_calls),
                     conversation_id, turn, history)

\* the test of the message with its strip() left out
IsBlank_unstripped(message) == message = <<>>

\* `not request.message.strip()`
IsBlank(message) == Strip(message) = <<>>

\* send_chat_message with the history read after the user message is saved
send_chat_message_saves_first(a, store, fresh, convs, msgs, current_user_id, conversation_id, message, provider) ==
    IF message = <<>>
    THEN {ChatOutcome("HTTP422", "validation error", store, fresh, convs, msgs,
                      NoneStr, NoTurn, <<>>)}
    ELSE IF IsBlank(message)
    THEN {ChatOutcome("HTTP400", "Message is required", store, fresh, convs, msgs,
                      NoneStr, NoTurn, <<>>)}
    ELSE IF ~is_configured(a)
    THEN {ChatOutcome("HTTP500", "Groq API key not configured", store, fresh, convs, msgs,
                      NoneStr, NoTurn, <<>>)}
    ELSE LET goc     == get_or_create_conversation(convs, current_user_id, conversation_id,
                                                   Len(msgs))
             conv_id == goc.conversation.id
             saved   == save_message(msgs, conv_id, "user", Strip(message), <<>>)
             history == get_conversation_history(goc.conversations, saved, conv_id,
                                                 current_user_id)
         IN  IF provider.kind = "killed"
             THEN {ChatOutcome("Killed", "", store, fresh, goc.conversations, saved,
                               NoneStr, NoTurn, history)}
             ELSE {AfterTurn(turn, goc.conversations, saved, conv_id, history)
                   : turn \in process_message(a, store, fresh, current_user_id, message,
                                              history, provider)}

\* send_chat_message(request, current_user_id, db)
send_chat_message(a, store, fresh, convs, msgs, current_user_id, conversation_id, message, provider) ==
    IF message = <<>>
    THEN \* ChatRequest.message has min_length=1: the body is not accepted
         {ChatOutcome("HTTP422", "validation error", store, fresh, convs, msgs,
                      NoneStr, NoTurn, <<>>)}
    ELSE IF IsBlank(message)
    THEN {ChatOutcome("HTTP400", "Message is required", store, fresh, convs, msgs,
                      NoneStr, NoTurn, <<>>)}
    ELSE IF ~is_configured(a)
    THEN {ChatOutcome("HTTP500", "Groq API key not configured", store, fresh, convs, msgs,
                      NoneStr, NoTurn, <<>>)}
    ELSE LET goc     == get_or_create_conversation(convs, current_user_id, conversation_id,
                                                   Len(msgs))
             conv_id == goc.conversation.id
             history == get_conversation_history(goc.conversations, msgs, conv_id,
                                                 current_user_id)
             saved   == save_message(msgs, conv_id, "user", Strip(message), <<>>)
         IN  IF provider.kind = "killed"
             THEN \* no response is sent; what was committed stays
                  {ChatOutcome("Killed", "", store, fresh, goc.conversations, saved,
                               NoneStr, NoTurn, history)}
             ELSE {AfterTurn(turn, goc.conversations, saved, conv_id, history)
                   : turn \in process_message(a, store, fresh, current_user_id, message,
                                              history, provider)}

(***************************************************************************)
(* State                                                                   *)
(***************************************************************************)
NoArgs ==
    [user |-> NoneStr, task_id |-> NoneStr, title |-> None, description |-> None,
     due_date |-> NoneStr, status |-> NoneStr, completed |-> NoneStr,
     token |-> NoneStr, current_title |-> None, name |-> NoneStr, session |-> <<>>]

\* the record of the call made last: its arguments, its outcome, and the
\* task table as it was when the call started
Call(op, args, r) ==
    [op |-> op, exc |-> r.exc, msg |-> r.msg, ret |-> r.ret, before |-> tasks]
        @@ args @@ NoArgs

NoCall == [op |-> "idle", exc |-> "ok", msg |-> "", ret |-> <<>>, before |-> {}] @@ NoArgs

\* the state after startup with GROQ_API_KEY set
Init ==
    /\ tasks = {}
    /\ nextId = 1
    /\ last = NoCall
    /\ agent = TaskAgent(TRUE)
    /\ conversations = {}
    /\ messages = <<>>

\* the state after startup, with or without GROQ_API_KEY
InitChat ==
    /\ tasks = {}
    /\ nextId = 1
    /\ last = NoCall
    /\ agent \in {TaskAgent(api_key) : api_key \in BOOLEAN}
    /\ conversations = {}
    /\ messages = <<>>

\* no call is being answered: the next request can be taken
Idle == last.op = "idle"

\* every action: one request handled to completion, its effect on the table,
\* and whether it drew a uuid
Effect(r, call) ==
    /\ Idle
    /\ tasks' = r.store
    /\ nextId' = IF \E t \in r.store : t.id = nextId THEN nextId + 1 ELSE nextId
    /\ last' = call
    /\ UNCHANGED <<agent, conversations, messages>>

\* <<title, due_date>> offered to add_task
AddTaskInputs == (TitleInputs \X {NoneStr}) \cup ({S_Milk} \X DueDateInputs)

AddTask ==
    \E u \in Users, in \in AddTaskInputs :
        /\ nextId <= MaxTasks
        /\ LET r == add_task(tasks, nextId, u, in[1], in[2])
           IN  Effect(r, Call("add_task", [user |-> u, title |-> in[1], due_date |-> in[2]], r))

ListTasks ==
    \E u \in Users, status \in StatusInputs :
        LET r == list_tasks(tasks, u, status)
        IN  Effect(r, Call("list_tasks", [user |-> u, status |-> status], r))

CompleteTask ==
    \E u \in Users, task_id \in TaskIdInputs :
        LET r == complete_task(tasks, u, task_id)
        IN  Effect(r, Call("complete_task", [user |-> u, task_id |-> task_id], r))

\* <<title, due_date>> offered to update_task
UpdateTaskInputs ==
    ({None, S_blank, S_tea_padded} \X {NoneStr})
        \cup {<<S_tea_padded, D_date>>, <<None, D_tomorrow>>}

UpdateTask ==
    \E u \in Users, task_id \in TaskIdInputs, in \in UpdateTaskInputs :
        LET r == update_task(tasks, u, task_id, in[1], in[2])
        IN  Effect(r, Call("update_task",
                           [user |-> u, task_id |-> task_id, title |-> in[1],
                            due_date |-> in[2]], r))

DeleteTask ==
    \E u \in Users :
        \/ \E task_id \in TaskIdInputs :
              LET r == delete_task(tasks, u, task_id, None)
              IN  Effect(r, Call("delete_task", [user |-> u, task_id |-> task_id], r))
        \/ \E title \in LookupInputs \cup {None} :
              LET r == delete_task(tasks, u, NoneStr, title)
              IN  Effect(r, Call("delete_task", [user |-> u, title |-> title], r))

RouteListTasks ==
    \E u \in Users :
        LET r == route_list_tasks(tasks, u)
        IN  Effect(r, Call("GET /api/tasks", [user |-> u], r))

\* <<title, description>> of the body of POST /api/tasks
RouteCreateInputs == (TitleInputs \X {None}) \cup {<<S_Milk, S_note>>}

RouteCreateTask ==
    \E u \in Users, in \in RouteCreateInputs :
        /\ nextId <= MaxTasks
        /\ LET r == route_create_task(tasks, nextId, u, in[1], in[2])
           IN  Effect(r, Call("POST /api/tasks",
                              [user |-> u, title |-> in[1], description |-> in[2]], r))

RouteGetTask ==
    \E u \in Users, task_id \in TaskIdInputs :
        LET r == route_get_task(tasks, u, task_id)
        IN  Effect(r, Call("GET /api/tasks/{task_id}", [user |-> u, task_id |-> task_id], r))

\* <<title, description>> of the body of PUT /api/tasks/{task_id}
RouteUpdateInputs ==
    ({None, <<>>, S_blank, S_tea_padded} \X {None})
        \cup {<<None, S_note>>, <<S_tea_padded, S_note>>}

RouteUpdateTask ==
    \E u \in Users, task_id \in TaskIdInputs, in \in RouteUpdateInputs :
        LET r == route_update_task(tasks, u, task_id, in[1], in[2])
        IN  Effect(r, Call("PUT /api/tasks/{task_id}",
                           [user |-> u, task_id |-> task_id, title |-> in[1],
                            description |-> in[2]], r))

RouteDeleteTask ==
    \E u \in Users, task_id \in TaskIdInputs :
        LET r == route_delete_task(tasks, u, task_id)
        IN  Effect(r, Call("DELETE /api/tasks/{task_id}", [user |-> u, task_id |-> task_id], r))

RouteToggleTaskComplete ==
    \E u \in Users, task_id \in TaskIdInputs, completed \in {"true", "false", NoneStr} :
        LET r == route_toggle_task_complete(tasks, u, task_id, completed)
        IN  Effect(r, Call("PATCH /api/tasks/{task_id}/complete",
                           [user |-> u, task_id |-> task_id, completed |-> completed], r))

\* the arguments a protocol client sends with each tool name
ToolArguments(name) ==
    {a \in [token : TokenInputs \cup {NoneStr},
            task_id : TaskIdInputs \cup {NoneStr},
            title : {None, S_tea_padded, S_milk},
            current_title : {None, S_milk},
            status : {NoneStr, "completed"},
            due_date : {NoneStr, D_tomorrow}] :
        /\ a.due_date # NoneStr =>
              name = "update_task" /\ a.task_id # NoneStr /\ a.title = S_tea_padded
        /\ name \notin {"complete_task", "update_task", "delete_task"} => a.task_id = NoneStr
        /\ name \notin {"add_task", "update_task", "delete_task"} => a.title = None
        /\ name = "add_task" => a.title # S_milk
        /\ name = "update_task" => a.title # S_milk
        /\ name = "delete_task" => a.title # S_tea_padded
        /\ name # "update_task" => a.current_title = None
        /\ name # "list_tasks" => a.status = NoneStr
        /\ a.task_id # NoneStr => a.current_title = None
        /\ name = "delete_task" /\ a.task_id # NoneStr => a.title = None
        /\ a.token \notin {"jwt-u1", "jwt-u2"} =>
              a.task_id = NoneStr /\ a.title = None /\ a.current_title = None
                                 /\ a.status = NoneStr}

CallTool ==
    \E name \in ToolNames \cup {"export_tasks"} :
        \E a \in ToolArguments(name) :
            /\ name = "add_task" => nextId <= MaxTasks
            /\ LET arguments == a @@ NoArgs
                   r == call_tool(tasks, nextId, name, arguments)
                   session == call_tool_session(tasks, nextId, name, arguments)
               IN  Effect(r, Call("call_tool", [name |-> name, session |-> session] @@ a, r))

\* the answer of the last call reaches its caller
Respond ==
    /\ ~Idle
    /\ last' = NoCall
    /\ UNCHANGED <<tasks, nextId, agent, conversations, messages>>

Next ==
    \/ Respond
    \/ AddTask
    \/ ListTasks
    \/ CompleteTask
    \/ UpdateTask
    \/ DeleteTask
    \/ RouteListTasks
    \/ RouteCreateTask
    \/ RouteGetTask
    \/ RouteUpdateTask
    \/ RouteDeleteTask
    \/ RouteToggleTaskComplete
    \/ CallTool

Spec == Init /\ [][Next]_vars

\* the operations that create, complete, edit and remove tasks
NextEdit ==
    \/ Respond
    \/ AddTask
    \/ RouteCreateTask
    \/ CompleteTask
    \/ UpdateTask
    \/ RouteUpdateTask
    \/ DeleteTask

SpecEdit == Init /\ [][NextEdit]_vars

(***************************************************************************)
(* Chat turns                                                              *)
(***************************************************************************)
\* the record of a chat request: what was asked, what process_message did
\* (turn), and the tables and the agent as they were when it started
ChatCall(op, user, conversation_id, message, provider, o, turn) ==
    [op |-> op, exc |-> o.exc, msg |-> o.msg, user |-> user,
     conversation_id |-> conversation_id, message |-> message, provider |-> provider,
     turn |-> turn, before |-> tasks, before_fresh |-> nextId, before_agent |-> agent,
     before_conversations |-> conversations, before_messages |-> messages]

\* a caller of task_agent.process_message outside the route, with an empty
\* history (src/test_chatbot.py, src/test_full_chatbot.py)
ProcessMessage ==
    \E u \in Users, message \in ChatInputs, provider \in ProviderOutcomes \cup {NotAsked} :
        /\ Idle
        /\ provider = NotAsked <=> ~AsksProvider(agent, message)
        /\ \E turn \in process_message(agent, tasks, nextId, u, message, <<>>, provider) :
              /\ turn.fresh <= MaxChatTasks + 1
              /\ tasks' = turn.store
              /\ nextId' = turn.fresh
              /\ agent' = [agent EXCEPT !.client = turn.client]
              /\ last' = ChatCall("process_message", u, NoneStr, message, provider, turn, turn)
              /\ UNCHANGED <<conversations, messages>>

\* one request to POST /api/chat handled with the provider behaving as given
ChatRequest(u, conversation_id, message, provider, max_messages) ==
    \E o \in send_chat_message(agent, tasks, nextId, conversations, messages, u,
                                conversation_id, message, provider) :
        /\ o.fresh <= MaxChatTasks + 1
        /\ Len(o.messages) <= max_messages
        /\ Cardinality(o.conversations) < Len(ConvIdTable)
        /\ tasks' = o.store
        /\ nextId' = o.fresh
        /\ conversations' = o.conversations
        /\ messages' = o.messages
        /\ agent' = IF o.turn.path = "None" THEN agent
                    ELSE [agent EXCEPT !.client = o.turn.client]
        /\ last' = [history |-> o.history]
                       @@ ChatCall("POST /api/chat", u, conversation_id, message, provider,
                                   o, o.turn)

\* POST /api/chat
SendChatMessage ==
    \E u \in Users, conversation_id \in {NoneStr, "c1"}, message \in ChatInputs \cup {<<>>},
       provider \in ProviderOutcomes \cup {NotAsked} :
        /\ Idle
        /\ provider = NotAsked <=> ~(AsksProvider(agent, message) /\ ~IsBlank(message))
        /\ ChatRequest(u, conversation_id, message, provider, MaxMessages)

\* POST /api/chat while the worker is killed during the call of the provider
KilledChatMessage ==
    \E u \in Users, conversation_id \in {NoneStr, "c1"}, message \in ChatInputs :
        /\ Idle
        /\ AsksProvider(agent, message) /\ ~IsBlank(message)
        /\ ChatRequest(u, conversation_id, message, WorkerKilled, MaxMessages)

NextChat ==
    \/ Respond
    \/ ProcessMessage
    \/ SendChatMessage

SpecChat == InitChat /\ [][NextChat]_vars

\* the chat route alone, with workers that can be killed
NextRoute ==
    \/ Respond
    \/ SendChatMessage
    \/ KilledChatMessage

SpecRoute == InitChat /\ [][NextRoute]_vars

\* the messages and the provider outcomes of the conversations that are
\* followed over several turns
LogInputs == {M_hi, M_add_Milk}

LogProviderOutcomes == {p \in ProviderOutcomes : p.tool_calls = <<>> /\ p.kind # "client_error"}

\* POST /api/chat, to a new conversation or to one named by the client
ContinueConversation ==
    \E u \in Users, conversation_id \in {NoneStr, "c1", "c2"}, message \in LogInputs,
       provider \in LogProviderOutcomes \cup {NotAsked} :
        /\ Idle
        /\ provider = NotAsked <=> ~AsksProvider(agent, message)
        /\ ChatRequest(u, conversation_id, message, provider, MaxLog)

\* responses of the model that propose several calls, one of which raises
\* after an earlier one took effect
LoopOutcomes ==
    {[kind |-> "reply", content |-> <<>>,
      tool_calls |-> <<ToolCall("add_task", [title |-> S_Milk])>>],
     [kind |-> "reply", content |-> <<>>,
      tool_calls |-> <<ToolCall("complete_task", [title |-> S_milk]),
                       ToolCall("delete_task", [title |-> S_nonexistent]),
                       ToolCall("delete_task", [title |-> S_milk])>>],
     [kind |-> "reply", content |-> S_sure,
      tool_calls |-> <<ToolCall("add_task", [title |-> S_tea_padded]),
                       MalformedToolCall("list_tasks")>>],
     [kind |-> "reply", content |-> <<>>,
      tool_calls |-> <<ToolCall("delete_task", [title |-> S_milk]),
                       ToolCall("complete_task", [title |-> S_milk]),
                       ToolCall("list_tasks", [status |-> "all"])>>],
     [kind |-> "reply", content |-> <<>>,
      tool_calls |-> <<ToolCall("complete_task", [title |-> S_milk]),
                       ToolCall("list_tasks", [status |-> "pending"])>>]}

\* process_message for a message that goes to the provider, which proposes
\* tool calls
ProposeToolCalls ==
    \E u \in Users, provider \in LoopOutcomes :
        /\ Idle
        /\ \E turn \in process_message(agent, tasks, nextId, u, M_add_Milk, <<>>, provider) :
              /\ turn.fresh <= MaxTasks + 1
              /\ tasks' = turn.store
              /\ nextId' = turn.fresh
              /\ agent' = [agent EXCEPT !.client = turn.client]
              /\ last' = ChatCall("process_message", u, NoneStr, M_add_Milk, provider,
                                  turn, turn)
              /\ UNCHANGED <<conversations, messages>>

\* the process is started again: startup_event runs init_db; the agent is
\* built anew from the same environment
Startup ==
    \E drops \in 0..Len(DropOrder) :
        LET db == init_db(tasks, conversations, messages, drops)
        IN  /\ Idle
            /\ tasks' = db.tasks
            /\ conversations' = db.conversations
            /\ messages' = db.messages
            /\ agent' = TaskAgent(agent.api_key)
            /\ last' = [op |-> "startup", exc |-> "ok", msg |-> "",
                        completed |-> db.completed, before |-> tasks,
                        before_conversations |-> conversations,
                        before_messages |-> messages]
            /\ UNCHANGED nextId

\* POST /api/chat with a request to add a task, which the model answers with
\* an add_task call or with text
AskToAddTask ==
    \E u \in Users, conversation_id \in {NoneStr, "c1"},
       provider \in {p \in ProviderOutcomes :
                        /\ p.kind = "reply"
                        /\ \A i \in 1..Len(p.tool_calls) : p.tool_calls[i].name = "add_task"} :
        /\ Idle
        /\ is_configured(agent)
        /\ ChatRequest(u, conversation_id, M_add_Milk, provider, MaxMessages)

NextRestart ==
    \/ Respond
    \/ AskToAddTask
    \/ Startup

\* the chat route of a process that is restarted
SpecRestart == Init /\ [][NextRestart]_vars

NextLoop ==
    \/ Respond
    \/ ProposeToolCalls

\* the tool loop of the agent, with the agent configured
SpecLoop == Init /\ [][NextLoop]_vars

NextLog ==
    \/ Respond
    \/ ContinueConversation

\* conversations followed over several turns, with the agent configured
SpecLog == Init /\ [][NextLog]_vars

\* the results a tool-call record can carry: an object with the keys of a
\* task, an object with none of them, a list (empty, of objects, with entries
\* that are not objects), and a value that is neither
ResultShapes ==
    {JsonDict([status |-> "updated", task_id |-> "t1", title |-> S_Milk,
               description |-> S_note, completed |-> TRUE]),
     JsonDict(NoFields),
     JsonList(<<>>),
     JsonList(<<JsonDict([status |-> "listed", task_id |-> "t1", title |-> S_Milk,
                          description |-> None, completed |-> FALSE])>>),
     JsonList(<<JsonStr, JsonDict(NoFields)>>),
     JsonStr}

\* the tool-call records handed to the synthesizer
ToolCallRecords ==
    {[tool |-> name, arguments |-> [current_title |-> S_milk] @@ NoToolArgs,
      result |-> result]
     : name \in ToolNames \cup {"export_tasks"}, result \in ResultShapes}

\* the lists of at most n tool-call records
ToolCallLists(n) ==
    UNION {[1..k -> ToolCallRecords] : k \in 0..n}

\* a call of task_agent._generate_tool_response(tool_calls)
GenerateToolResponse ==
    \E tool_calls \in ToolCallLists(MaxToolCalls) :
        /\ Idle
        /\ last' = [op |-> "_generate_tool_response", tool_calls |-> tool_calls,
                    exc |-> generate_tool_response(tool_calls).exc,
                    msg |-> generate_tool_response(tool_calls).msg,
                    response |-> generate_tool_response(tool_calls).text]
        /\ UNCHANGED <<tasks, nextId, agent, conversations, messages>>

NextSynth ==
    \/ Respond
    \/ GenerateToolResponse

SpecSynth == Init /\ [][NextSynth]_vars

(***************************************************************************)
(* What the last call was                                                  *)
(***************************************************************************)
\* the user a call acts for: the authenticated caller
Caller ==
    IF last.op = "call_tool" THEN verify_token(last.token) ELSE last.user

\* the tool a call ran, if it ran one of tools.py
Tool ==
    IF last.op = "call_tool" THEN last.name
    ELSE IF last.op \in ToolNames THEN last.op ELSE NoneStr

\* the call failed the way the specification calls NotFound
FailedNotFound == IsNotFound(last) \/ last.exc = "HTTP404"

\* the call failed the way the specification calls InvalidArgument
FailedInvalidArgument ==
    IsInvalidArgument(last) \/ last.exc \in {"HTTP400", "HTTP422"}

\* the tasks of the table before the call that the identity given names
Named == {t \in last.before : last.task_id # NoneStr /\ t.id = ParseUUID(last.task_id)}

\* t matches title by case-insensitive substring
SubstringMatch(title, t) == Contains(Lower(title), Lower(t.title))

(***************************************************************************)
(* Claims                                                                  *)
(***************************************************************************)
\* C1: add_task(owner, t) with t non-empty after trimming adds exactly one
\* task with title = trim(t), completed = false, owner_id = owner; the task is
\* then in list_tasks(owner) and in no list_tasks(other); every task stored
\* before is unchanged.
C1_AddTaskVisible ==
    (/\ last.op = "add_task"
     /\ Strip(last.title) # <<>>
     /\ last.due_date \in {NoneStr, D_date})
    => \E t \in tasks :
          /\ t \notin last.before
          /\ tasks = last.before \cup {t}
          /\ t.title = Strip(last.title)
          /\ t.completed = FALSE
          /\ t.user_id = last.user
          /\ LET mine == list_tasks(tasks, last.user, NoneStr)
             IN  /\ mine.exc = "ok"
                 /\ \E i \in 1..Len(mine.ret) : mine.ret[i].id = IdStr(t.id)
          /\ \A other \in Users \ {last.user} :
                LET theirs == list_tasks(tasks, other, NoneStr)
                IN  \A i \in 1..Len(theirs.ret) : theirs.ret[i].id # IdStr(t.id)

\* C2: owner isolation. No call made for o1 returns, modifies or removes a
\* task of o2; complete, update and delete by o1 on the identity of a task of
\* o2 fail with NotFound and leave the table unchanged.
C2_OwnerIsolation ==
    /\ (~Idle /\ Caller # NoneStr) =>
          /\ {t \in last.before : t.user_id # Caller} = {t \in tasks : t.user_id # Caller}
          /\ \A i \in 1..Len(last.ret) :
                "user_id" \in DOMAIN last.ret[i] => last.ret[i].user_id = Caller
    /\ (/\ \/ Tool \in {"complete_task", "update_task", "delete_task"}
           \/ last.op \in {"PUT /api/tasks/{task_id}", "DELETE /api/tasks/{task_id}",
                           "PATCH /api/tasks/{task_id}/complete"}
        /\ Caller # NoneStr
        /\ \E t \in Named : t.user_id # Caller
        /\ last.op = "PATCH /api/tasks/{task_id}/complete" => last.completed # NoneStr
        /\ last.op = "PUT /api/tasks/{task_id}" => last.title # <<>>)
       => FailedNotFound /\ tasks = last.before

\* what a caller can observe of one call: the error or the answer, and
\* whether the table changed
Observed(r, store) == <<r.exc, r.msg, r.ret, r.store = store>>

\* an identity that is well-formed and names no task at all
Unassigned == IdStr(MaxTasks + 1)

\* C3: for an owner, get / complete / update / delete on an identity that
\* exists but belongs to another owner has the same outcome as on an identity
\* that does not exist.
C3_NoLeakThroughErrors ==
    \A u \in Users : \A t \in tasks :
        t.user_id # u =>
            LET theirs == IdStr(t.id)
            IN  /\ Observed(complete_task(tasks, u, theirs), tasks)
                     = Observed(complete_task(tasks, u, Unassigned), tasks)
                /\ Observed(update_task(tasks, u, theirs, S_Milk, NoneStr), tasks)
                     = Observed(update_task(tasks, u, Unassigned, S_Milk, NoneStr), tasks)
                /\ Observed(delete_task(tasks, u, theirs, None), tasks)
                     = Observed(delete_task(tasks, u, Unassigned, None), tasks)
                /\ Observed(route_get_task(tasks, u, theirs), tasks)
                     = Observed(route_get_task(tasks, u, Unassigned), tasks)
                /\ Observed(route_update_task(tasks, u, theirs, S_Milk, None), tasks)
                     = Observed(route_update_task(tasks, u, Unassigned, S_Milk, None), tasks)
                /\ Observed(route_delete_task(tasks, u, theirs), tasks)
                     = Observed(route_delete_task(tasks, u, Unassigned), tasks)
                /\ Observed(route_toggle_task_complete(tasks, u, theirs, "true"), tasks)
                     = Observed(route_toggle_task_complete(tasks, u, Unassigned, "true"), tasks)

\* the tasks list_tasks is to return for a status
Expected(store, user, status) ==
    {t \in store :
        /\ t.user_id = user
        /\ status = "pending" => t.completed = FALSE
        /\ status = "completed" => t.completed = TRUE}

\* C4: list_tasks(owner, status) returns exactly the owner's tasks for no
\* status or "all", exactly the owner's pending tasks for "pending", exactly
\* the owner's completed tasks for "completed", and never changes the table.
C4_ListTasksByStatus ==
    (last.op = "list_tasks" /\ last.status \in {NoneStr, "all", "pending", "completed"})
    => /\ tasks = last.before
       /\ last.exc = "ok"
       /\ {last.ret[i].id : i \in 1..Len(last.ret)}
             = {IdStr(t.id) : t \in Expected(last.before, last.user, last.status)}

\* the ids of the tasks a list_tasks answer carries
ListedIds(r) == {r.ret[i].id : i \in 1..Len(r.ret)}

\* C5: complete_task(owner, id) on a task of owner sets completed = true;
\* afterwards the task is absent from list_tasks(owner, "pending") and present
\* in list_tasks(owner, "completed"); on an already completed task nothing
\* changes; on an identity that does not exist for the owner it fails with
\* NotFound.
C5_CompleteTask ==
    (Tool = "complete_task" /\ Caller # NoneStr /\ last.task_id # NoneStr
                            /\ ParseUUID(last.task_id) # 0)
    => IF \E t \in Named : t.user_id = Caller
       THEN \E t \in Named :
               /\ t.user_id = Caller
               /\ tasks = (last.before \ {t}) \cup {[t EXCEPT !.completed = TRUE]}
               /\ LET pending == list_tasks(tasks, Caller, "pending")
                      completed == list_tasks(tasks, Caller, "completed")
                  IN  /\ pending.exc = "ok"
                      /\ IdStr(t.id) \notin ListedIds(pending)
                      /\ completed.exc = "ok"
                      /\ IdStr(t.id) \in ListedIds(completed)
       ELSE FailedNotFound /\ tasks = last.before

\* the call is an update of a task: the tool function or the route
IsUpdate == last.op \in {"update_task", "PUT /api/tasks/{task_id}"}

\* the task the update is aimed at
UpdateTarget == {t \in Named : t.user_id = last.user}

ByTitle ==
    /\ last.task_id = NoneStr
    /\ Caller # NoneStr
    /\ \/ last.op = "delete_task" /\ last.title # None
       \/ last.op = "call_tool" /\ last.name = "delete_task" /\ last.title # None
       \/ last.op = "call_tool" /\ last.name = "update_task" /\ last.current_title # None
                                /\ last.title # None /\ Strip(last.title) # <<>>

\* the title the call looks a task up by
LookupTitle == IF Tool = "update_task" THEN last.current_title ELSE last.title

\* C7: update_task and delete_task given a title select their target among
\* the caller's tasks by case-insensitive substring match; with an empty title
\* or no match the call fails and no task is modified.
C7_SelectByTitle ==
    ByTitle =>
        LET matches == {t \in last.before :
                            t.user_id = Caller /\ SubstringMatch(LookupTitle, t)}
        IN  IF LookupTitle = <<>> \/ matches = {}
            THEN last.exc # "ok" /\ tasks = last.before
            ELSE \E t \in matches :
                    IF Tool = "delete_task"
                    THEN tasks = last.before \ {t}
                    ELSE tasks = (last.before \ {t})
                                    \cup {[t EXCEPT !.title = Strip(last.title)]}

\* the tasks delete_task's lookup resolves the request to
Resolved ==
    {t \in last.before :
        /\ t.user_id = last.user
        /\ IF last.task_id # NoneStr THEN t \in Named ELSE ILike(last.title, t.title)}

Processed ==
    last.op \in {"process_message", "POST /api/chat"} /\ last.turn.path # "None"

\* C9: greeting precedence. For a message that lower-cased and trimmed is in
\* the greeting set, process_message returns the canned greeting with no tool
\* calls recorded, executes no tool, does not call the provider and leaves
\* the task table unchanged, with the provider configured or not.
C9_GreetingPrecedence ==
    (Processed /\ Strip(Lower(last.message)) \in Greetings)
    => /\ last.turn.exc = "ok"
       /\ last.turn.response = MsgGreeting
       /\ last.turn.tool_calls = <<>>
       /\ last.turn.invocations = <<>>
       /\ last.turn.llm_messages = <<>>
       /\ ~last.turn.fallback
       /\ agent = last.before_agent
       /\ tasks = last.before

\* a padded, capitalised greeting was answered in a chat request while a task
\* was stored
C9_Witness ==
    /\ last.op = "POST /api/chat"
    /\ last.message = M_Hello_padded
    /\ last.turn.response = MsgGreeting
    /\ tasks # {}

\* the message carries a rename/update keyword and the separator " to "
HasKeywordAndSeparator(message) ==
    /\ Contains(S_rename, Lower(message)) \/ Contains(S_update, Lower(message))
    /\ Contains(S_to, Lower(message))

\* C10: direct-path precedence. Every non-greeting message with a
\* rename/update keyword and " to " is handled terminally by the direct path,
\* with the provider configured or not: the provider is not called, the
\* heuristic fallback is not entered, at most one update_task is invoked.
C10_DirectPathPrecedence ==
    (/\ last.op \in {"process_message", "POST /api/chat"}
     /\ Strip(Lower(last.message)) \notin Greetings
     /\ HasKeywordAndSeparator(last.message))
    => /\ last.turn.path = "DirectUpdate"
       /\ last.turn.exc = "ok"
       /\ last.turn.llm_messages = <<>>
       /\ ~last.turn.fallback
       /\ agent = last.before_agent
       /\ Len(last.turn.invocations) <= 1
       /\ \A i \in 1..Len(last.turn.invocations) :
             last.turn.invocations[i].tool = "update_task"

\* the messages of the form "rename X to Y" / "update X to Y", with their X
\* and Y written out
RenameForm ==
    {[message |-> M_rename_milk_to_tea, X |-> <<"m","i","l","k">>, Y |-> <<"t","e","a">>],
     [message |-> M_update_Milk_to_quoted_Tea, X |-> <<"M","i","l","k">>, Y |-> <<"T","e","a">>],
     [message |-> M_rename_eggs_to_tea_to_go, X |-> <<"e","g","g","s">>,
      Y |-> <<"t","e","a"," ","t","o"," ","g","o">>]}

\* the answers of the direct path that tell the user the task was not found
TaskNotFoundAnswers(X) ==
    {<<"Task '">> \o X \o <<"' not found. Please check the task name.">>,
     <<"Error updating task: ", "Task not found">>}

\* C11: for a message "rename X to Y" or "update X to Y" the direct path
\* splits at the first " to ", takes X without the keyword as current_title
\* and Y without quotes as title, invokes update_task(current_title = X,
\* title = Y) exactly once for the caller; when a task of the caller matches
\* it answers "I've updated 'X' to 'Y' successfully!" with one tool-call
\* record, otherwise it answers that the task was not found and changes no
\* task.
C11_DirectRename ==
    \A f \in RenameForm :
        (Processed /\ last.message = f.message)
        => /\ last.turn.path = "DirectUpdate"
           /\ last.turn.exc = "ok"
           /\ Len(last.turn.invocations) = 1
           /\ last.turn.invocations[1].tool = "update_task"
           /\ last.turn.invocations[1].arguments.user_id = last.user
           /\ last.turn.invocations[1].arguments.current_title = f.X
           /\ last.turn.invocations[1].arguments.title = f.Y
           /\ IF \E t \in last.before : t.user_id = last.user /\ SubstringMatch(f.X, t)
              THEN /\ last.turn.response
                        = <<"I've updated '">> \o f.X \o <<"' to '">> \o f.Y
                              \o <<"' successfully!">>
                   /\ Len(last.turn.tool_calls) = 1
                   /\ last.turn.tool_calls[1].tool = "update_task"
                   /\ \E t \in last.before :
                         /\ t.user_id = last.user
                         /\ SubstringMatch(f.X, t)
                         /\ tasks = (last.before \ {t}) \cup {[t EXCEPT !.title = f.Y]}
              ELSE /\ last.turn.response \in TaskNotFoundAnswers(f.X)
                   /\ last.turn.tool_calls = <<>>
                   /\ tasks = last.before

\* a chat request renamed the caller's task, quotes stripped from the new
\* title
C11_Witness ==
    /\ last.op = "POST /api/chat"
    /\ last.message = M_update_Milk_to_quoted_Tea
    /\ Len(last.turn.tool_calls) = 1
    /\ \E t \in tasks : t.user_id = last.user /\ t.title = <<"T","e","a">>

\* the request is a chat turn: process_message called directly or POST /api/chat
\* with a message that is not blank
IsChatTurn ==
    last.op \in {"process_message", "POST /api/chat"} /\ Strip(last.message) # <<>>

\* the message is left to the provider or to the keyword rules: it is neither
\* a greeting nor a rename/update
IsOrdinary(message) ==
    Strip(Lower(message)) \notin Greetings /\ ~HasKeywordAndSeparator(message)

\* the turn was answered with the text of an exception
IsErrorAnswer(turn) ==
    turn.response # <<>> /\ turn.response[1] = "I encountered an error: "

\* the generic help message of the keyword rules
MsgHelp ==
    <<"I can help you add, show, delete, or update tasks. Try 'add buy milk' or 'show tasks'.">>

\* the turn followed the keyword rules for the message: "add" runs add_task
\* once for the caller with the rest of the message as title, "show" or
\* "list" runs list_tasks with status all, anything else runs no tool and
\* answers with the help message
FollowsKeywordRules(turn) ==
    LET msg == Lower(last.message)
    IN  IF Contains(<<"a","d","d">>, msg)
        THEN /\ Len(turn.invocations) = 1
             /\ turn.invocations[1].tool = "add_task"
             /\ turn.invocations[1].arguments.user_id = last.user
             /\ last.message = M_add_Milk => turn.invocations[1].arguments.title = S_Milk
             /\ \E t \in tasks \ last.before :
                   /\ t.user_id = last.user
                   /\ t.title = turn.invocations[1].arguments.title
                   /\ tasks = last.before \cup {t}
        ELSE IF Contains(<<"s","h","o","w">>, msg) \/ Contains(<<"l","i","s","t">>, msg)
        THEN /\ Len(turn.invocations) = 1
             /\ turn.invocations[1].tool = "list_tasks"
             /\ turn.invocations[1].arguments.user_id = last.user
             /\ turn.invocations[1].arguments.status = "all"
             /\ tasks = last.before
        ELSE /\ turn.invocations = <<>>
             /\ turn.response = MsgHelp
             /\ tasks = last.before

\* C12: with no provider credential configured every chat turn is still
\* answered, ordinary messages through the HeuristicFallback path: the chat
\* request returns no error status and process_message returns a response
\* instead of raising.
C12_UnconfiguredNeverFails ==
    (IsChatTurn /\ ~is_configured(last.before_agent))
    => /\ last.exc = "ok"
       /\ last.turn.exc = "ok"
       /\ IsOrdinary(last.message) => last.turn.path = "HeuristicFallback"

\* C13: when the provider is configured but its call fails (timeout, transport
\* failure, client construction failure), the message is handled by the
\* keyword rules instead of being answered with an error.
C13_ProviderFailureFallsBack ==
    (Processed /\ last.provider.kind \in {"client_error", "raise"})
    => /\ last.turn.exc = "ok"
       /\ ~IsErrorAnswer(last.turn)
       /\ FollowsKeywordRules(last.turn)

\* C14: process_message never lets an exception escape: for every message,
\* provider state and tool outcome it returns a response string.
C14_NoExceptionEscapes ==
    Processed => last.turn.exc = "ok"

\* C15: on the HeuristicFallback path (provider not configured) a message
\* with "add" runs add_task exactly once for the caller with the rest of the
\* message as title, a message with "show" or "list" runs list_tasks with
\* status all, any other message runs no tool and gets the help message.
C15_HeuristicKeywordRules ==
    (/\ last.op = "process_message"
     /\ ~is_configured(last.before_agent)
     /\ IsOrdinary(last.message))
    => /\ last.turn.exc = "ok"
       /\ FollowsKeywordRules(last.turn)

\* the proposed calls with the user_id argument of each set to who
ProposedFor(calls, who) ==
    [i \in 1..Len(calls) |->
        [calls[i] EXCEPT !.arguments = [@ EXCEPT !.user_id = who]]]

\* requests to the tool boundary of server.py that carry the credential of u1
WireRequests ==
    {[name |-> "add_task", arguments |-> [token |-> "jwt-u1", title |-> S_Milk] @@ NoArgs],
     [name |-> "list_tasks", arguments |-> [token |-> "jwt-u1"] @@ NoArgs],
     [name |-> "complete_task", arguments |-> [token |-> "jwt-u1", task_id |-> "t1"] @@ NoArgs],
     [name |-> "update_task",
      arguments |-> [token |-> "jwt-u1", task_id |-> "t1", title |-> S_tea_padded] @@ NoArgs],
     [name |-> "delete_task", arguments |-> [token |-> "jwt-u1", task_id |-> "t1"] @@ NoArgs]}

\* C16: the owner of every executed tool call is the authenticated caller:
\* on the ModelAssisted path a user_id proposed by the model is overwritten by
\* the caller's id before execution, at the tool boundary of server.py the
\* owner comes from the credential only, and two calls that differ only in a
\* model-supplied or wire-supplied user_id act on the same owner's tasks.
C16_OwnerIsCaller ==
    /\ Processed =>
          /\ \A i \in 1..Len(last.turn.invocations) :
                last.turn.invocations[i].arguments.user_id = last.user
          /\ \A t \in (tasks \ last.before) \cup (last.before \ tasks) :
                t.user_id = last.user
    /\ Idle =>
        \A u \in Users : \A p \in ProviderOutcomes : \A who \in Users \cup {NoneStr} :
          RunToolCalls(tasks, nextId, u, ProposedFor(p.tool_calls, who))
              = RunToolCalls(tasks, nextId, u, ProposedFor(p.tool_calls, NoneStr))
    /\ Idle =>
        \A w \in WireRequests : \A who \in Users :
          LET r == call_tool(tasks, nextId, w.name, w.arguments)
              q == call_tool(tasks, nextId, w.name,
                             [user_id |-> who, user |-> who] @@ w.arguments)
          IN  /\ q = r
              /\ \A t \in (r.store \ tasks) \cup (tasks \ r.store) : t.user_id = "u1"

\* a chat request of u1 in which the model proposed add_task with the
\* user_id of u2 stored the task for u1
C16_Witness ==
    /\ last.op = "POST /api/chat"
    /\ last.user = "u1"
    /\ last.provider.tool_calls # <<>>
    /\ last.provider.tool_calls[1].name = "add_task"
    /\ last.provider.tool_calls[1].arguments.user_id = "u2"
    /\ \E t \in tasks \ last.before : t.user_id = "u1"

\* the turn went to the provider and the provider replied
ProviderReplied ==
    Processed /\ last.turn.path = "ModelAssisted" /\ last.provider.kind = "reply"

\* the first n proposed calls were executed, in the proposed order, for the
\* caller
ExecutedInOrder(n) ==
    /\ Len(last.turn.invocations) = n
    /\ \A i \in 1..n :
          /\ last.turn.invocations[i].tool = last.provider.tool_calls[i].name
          /\ last.turn.invocations[i].arguments
                = InjectOwner(last.provider.tool_calls[i].arguments, last.user)

\* the free text of the model is returned verbatim, nothing is executed
FreeTextVerbatim ==
    /\ last.turn.response = last.provider.content
    /\ last.turn.invocations = <<>>
    /\ last.turn.tool_calls = <<>>
    /\ tasks = last.before

\* the answer is the synthesizer's rendering of the executed calls, returned
\* as tool_calls
AnsweredByRendering ==
    /\ Len(last.turn.tool_calls) = Len(last.turn.invocations)
    /\ \A i \in 1..Len(last.turn.tool_calls) :
          /\ last.turn.tool_calls[i].tool = last.turn.invocations[i].tool
          /\ last.turn.tool_calls[i].arguments = last.turn.invocations[i].arguments
    /\ generate_tool_response(last.turn.tool_calls) = Rendered(last.turn.response)

TurnOpened ==
    /\ last.op = "POST /api/chat"
    /\ Strip(last.message) # <<>>
    /\ is_configured(last.before_agent)

\* C18: in every chat turn the user's message is committed to the
\* conversation log before the agent is invoked: when processing fails or
\* the worker is killed the user message is stored and only the assistant
\* message of the turn is missing.
C18_UserMessageFirst ==
    TurnOpened =>
        LET n == Len(last.before_messages)
        IN  /\ Len(messages) > n
            /\ SubSeq(messages, 1, n) = last.before_messages
            /\ messages[n + 1].role = "user"
            /\ messages[n + 1].content = Strip(last.message)
            /\ \E c \in conversations :
                  c.user_id = last.user /\ c.id = messages[n + 1].conversation_id
            /\ IF last.exc = "ok"
               THEN /\ Len(messages) = n + 2
                    /\ messages[n + 2].role = "assistant"
                    /\ messages[n + 2].content = last.turn.response
                    /\ messages[n + 2].conversation_id = messages[n + 1].conversation_id
               ELSE Len(messages) = n + 1

\* the worker was killed during a chat turn and the log holds the user's
\* message of that turn as its last entry
C18_Witness ==
    /\ last.op = "POST /api/chat"
    /\ last.exc = "Killed"
    /\ messages # <<>>
    /\ messages[Len(messages)].role = "user"
    /\ messages[Len(messages)].content = M_add_Milk

\* C19: response synthesis is total: for every list of tool-call records,
\* the empty list and records whose result is a list instead of an object, an
\* object without the expected keys or a list with entries that are not
\* objects included, _generate_tool_response returns a string and never
\* raises.
C19_SynthesisTotal ==
    last.op = "_generate_tool_response"
    => /\ last.exc = "ok"
       /\ last.response # <<>>

\* the request at the tool boundary is valid under the schema shown to the
\* model (get_tools_schema): it names the required arguments of its tool and
\* no argument outside the schema
ValidUnderModelSchema ==
    /\ last.op = "call_tool"
    /\ verify_token(last.token) # NoneStr
    /\ last.task_id = NoneStr
    /\ CASE last.name = "add_task" -> last.title # None
         [] last.name = "list_tasks" ->
                last.status \in {NoneStr, "all", "pending", "completed"}
         [] last.name = "delete_task" -> last.title # None
         [] last.name = "update_task" -> last.current_title # None
         [] last.name = "complete_task" -> last.title # None
         [] OTHER -> FALSE

\* the call failed for an argument that is missing or unknown
FailedForArgument ==
    /\ last.exc # "ok"
    /\ last.msg \in {"Tool execution failed: 'title'", "Tool execution failed: 'task_id'"}

\* C20: for each of the five operations the argument names and values of the
\* schema shown to the model are the ones the executor accepts: no call that
\* is valid under that schema fails for a missing or unknown argument.
C20_SchemaMatchesExecutor ==
    ValidUnderModelSchema => ~FailedForArgument

TitleMatched ==
    {t \in last.before : t.user_id = last.user /\ SubstringMatch(last.title, t)}

\* C22: when two or more of the owner's tasks match the given title by
\* substring, delete_task by title succeeds, removes exactly one of the
\* matching tasks and leaves the others untouched; it neither fails nor
\* affects more than one task.
C22_AmbiguousTitleActsOnOne ==
    (/\ last.op = "delete_task"
     /\ last.task_id = NoneStr
     /\ last.title \notin {None, <<>>}
     /\ Cardinality(TitleMatched) >= 2)
    => /\ last.exc = "ok"
       /\ \E t \in TitleMatched : tasks = last.before \ {t}

\* C23: every tool invocation executed while a message is processed yields
\* exactly one tool-call record in the tool_calls returned for the turn and
\* stored with the assistant message, on every routing path: the records are
\* as many as the invocations made, those that report not-found included, and
\* a turn without invocation has no record.
C23_OneRecordPerInvocation ==
    Processed =>
        /\ Len(last.turn.tool_calls) = Len(last.turn.invocations)
        /\ \A i \in 1..Len(last.turn.tool_calls) :
              /\ last.turn.tool_calls[i].tool = last.turn.invocations[i].tool
              /\ last.turn.tool_calls[i].arguments = last.turn.invocations[i].arguments
        /\ (last.op = "POST /api/chat" /\ last.exc = "ok") =>
              messages[Len(messages)].tool_calls = last.turn.tool_calls

\* how often the operation op was made on the session s
Count(op, s) == Cardinality({i \in 1..Len(s) : s[i] = op})

\* the request passed the token checks of call_tool: a tool is executed
ToolExecuted == last.op = "call_tool" /\ verify_token(last.token) # NoneStr

\* C24: each tool execution at the protocol boundary runs in one scoped
\* session: acquire, then the body, then commit if the body succeeded or
\* rollback if it raised, then release. The session is released on every
\* path, commit and rollback never both happen for one call, and no session
\* stays open after the call.
C24_ScopedSession ==
    ToolExecuted =>
        LET s == last.session
        IN  /\ Len(s) >= 3
            /\ s[1] = "acquire"
            /\ Count("acquire", s) = 1
            /\ s[Len(s)] = "close"
            /\ Count("close", s) = 1
            /\ s[Len(s) - 1] = (IF last.exc = "ok" THEN "commit" ELSE "rollback")
            /\ ~(Count("commit", s) > 0 /\ Count("rollback", s) > 0)

\* the message handed to the model for a stored message
AsHistory(m) == [role |-> m.role, content |-> m.content]

\* the conversation the chat request was served in: the one its user message
\* was stored under
TurnConversation == messages[Len(last.before_messages) + 1].conversation_id

\* the chat request opened a turn and read the history
ReadHistory ==
    /\ last.op = "POST /api/chat"
    /\ Len(messages) > Len(last.before_messages)

\* C25: the message log of a conversation is append-only: every message once
\* stored keeps its role, content and tool-call record and is never removed;
\* the history handed to the model for a turn is exactly the stored messages
\* of the requesting owner's conversation in ascending creation order.
C25_AppendOnlyLog ==
    /\ last.op = "POST /api/chat" =>
          /\ Len(messages) >= Len(last.before_messages)
          /\ \A i \in 1..Len(last.before_messages) : messages[i] = last.before_messages[i]
    /\ \A i, j \in 1..Len(messages) : i < j => messages[i].created_at < messages[j].created_at
    /\ ReadHistory =>
          LET stored == SelectSeq(last.before_messages,
                                  LAMBDA m : m.conversation_id = TurnConversation)
          IN  /\ \E c \in conversations : c.id = TurnConversation /\ c.user_id = last.user
              /\ last.history = [i \in 1..Len(stored) |-> AsHistory(stored[i])]

\* a second turn in a conversation was handed the two messages of its first
\* turn while the log also held the messages of another conversation
C25_Witness ==
    /\ ReadHistory
    /\ last.exc = "ok"
    /\ Len(last.history) = 2
    /\ last.history[1].role = "user"
    /\ last.history[2].role = "assistant"
    /\ Len(last.before_messages) = 4
    /\ last.before_messages[1].conversation_id # TurnConversation

\* the task of the caller that the call names by its identity
OwnTarget == {t \in Named : t.user_id = Caller}

\* C26: update_task is all-or-nothing in the store: called through the tool
\* boundary with a valid new title and a due_date that does not parse, it
\* fails with InvalidArgument and the stored task keeps its old title: the
\* title assigned before the date check is rolled back, not committed.
C26_UpdateAllOrNothing ==
    (/\ last.op = "call_tool"
     /\ last.name = "update_task"
     /\ OwnTarget # {}
     /\ last.title # None
     /\ Strip(last.title) # <<>>
     /\ last.due_date # NoneStr
     /\ ~FromIsoFormatOk(last.due_date)
     /\ ~StrptimeOk(last.due_date))
    => /\ IsInvalidArgument(last)
       /\ tasks = last.before
       /\ Count("commit", last.session) = 0
       /\ Count("rollback", last.session) = 1

\* update_task was refused for its due_date while its new title differed
\* from the stored one
C26_Witness ==
    /\ last.op = "call_tool"
    /\ last.name = "update_task"
    /\ last.due_date = D_tomorrow
    /\ last.msg = "Invalid due_date format"
    /\ \E t \in OwnTarget : t.title # Strip(last.title) /\ t \in tasks

\* the system message every request to the provider starts with
SystemMessage == [role |-> "system", content |-> <<"system prompt">>]

\* the messages stored under the turn's conversation before the request
StoredBefore ==
    SelectSeq(last.before_messages, LAMBDA m : m.conversation_id = TurnConversation)

\* the chat request submitted a message list to the provider
Submitted == last.op = "POST /api/chat" /\ last.turn.llm_messages # <<>>

\* C27: the message list submitted to the provider for a turn is the system
\* prompt, then the conversation's messages from before this turn, then the
\* current user message exactly once: the current message is never
\* duplicated and never missing.
C27_ModelInput ==
    Submitted =>
        LET llm == last.turn.llm_messages
        IN  /\ Len(llm) = Len(StoredBefore) + 2
            /\ llm[1] = SystemMessage
            /\ \A i \in 1..Len(StoredBefore) : llm[i + 1] = AsHistory(StoredBefore[i])
            /\ llm[Len(llm)] = [role |-> "user", content |-> last.message]

\* the second turn of a conversation was submitted with the two messages of
\* the first turn between the system prompt and the current message
C27_Witness ==
    /\ Submitted
    /\ Len(StoredBefore) = 2
    /\ Len(last.turn.llm_messages) = 4
    /\ last.turn.llm_messages[4].content = M_add_Milk

\* the conversations, before the request, that the supplied identity names
\* and that belong to the requester
OwnConversation ==
    {c \in last.before_conversations :
        c.id = last.conversation_id /\ c.user_id = last.user}

\* C28: get_or_create_conversation always returns a conversation owned by
\* the requesting user: when the supplied identity does not exist or belongs
\* to another owner a new conversation of the requester is created and
\* returned, the other conversation is neither returned, modified nor
\* appended to, and no chat turn reads from or writes into another owner's
\* conversation.
C28_ConversationOfRequester ==
    ReadHistory =>
        /\ \E c \in conversations : c.id = TurnConversation /\ c.user_id = last.user
        /\ \A c \in last.before_conversations : c.user_id # last.user => c \in conversations
        /\ IF OwnConversation # {}
           THEN /\ TurnConversation = last.conversation_id
                /\ {c.id : c \in conversations} = {c.id : c \in last.before_conversations}
           ELSE /\ \A c \in last.before_conversations :
                      c.id # TurnConversation /\ c \in conversations
                /\ Cardinality(conversations) = Cardinality(last.before_conversations) + 1
        /\ \A i \in (Len(last.before_messages) + 1)..Len(messages) :
              messages[i].conversation_id = TurnConversation
        /\ Len(last.history) = Len(StoredBefore)
        /\ \A k \in 1..Len(last.history) : last.history[k] = AsHistory(StoredBefore[k])

\* a user named the conversation of the other user, which holds messages, and
\* was served in a new conversation of their own with an empty history
C28_Witness ==
    /\ ReadHistory
    /\ last.exc = "ok"
    /\ \E c \in last.before_conversations :
          /\ c.id = last.conversation_id
          /\ c.user_id # last.user
          /\ \E i \in 1..Len(last.before_messages) :
                last.before_messages[i].conversation_id = c.id
    /\ TurnConversation # last.conversation_id
    /\ last.history = <<>>

RECURSIVE StoresAfter(_, _, _, _)
\* the task tables that executing the given calls for the user, one after
\* another and each to completion, can leave behind when none of them raises
StoresAfter(store, fresh, user, calls) ==
    IF calls = <<>> THEN {store}
    ELSE UNION {
           IF r.exc # "ok" THEN {}
           ELSE StoresAfter(r.store, Advance(fresh, r.store), user, Tail(calls))
           : r \in mcp_server_call_tool(store, fresh, Head(calls).name,
                                        InjectOwner(Head(calls).arguments, user))}

\* the position of the proposed call that raised, when the turn was answered
\* with an error: the last call invoked if that one failed, otherwise the
\* call after the invoked ones
RaisedAt ==
    LET n == Len(last.turn.invocations)
    IN  IF n > 0 /\ last.turn.invocations[n].exc # "ok" THEN n ELSE n + 1

\* C29: the tool calls proposed in one model response are executed one after
\* another and are not atomic as a group: if the k-th proposed call raises,
\* process_message returns an error string with no tool-call records, the
\* effects of the first k-1 calls on the task store remain committed and the
\* calls after the k-th are not executed.
C29_LoopNotAtomic ==
    (ProviderReplied /\ last.provider.tool_calls # <<>>) =>
        LET calls == last.provider.tool_calls
            n     == Len(last.turn.invocations)
            k     == RaisedAt
        IN  IF IsErrorAnswer(last.turn)
            THEN /\ last.turn.exc = "ok"
                 /\ last.turn.tool_calls = <<>>
                 /\ k <= Len(calls)
                 /\ n <= k
                 /\ k = n + 1 => calls[k].malformed
                 /\ \A i \in 1..n :
                       /\ last.turn.invocations[i].tool = calls[i].name
                       /\ i < k => last.turn.invocations[i].exc = "ok"
                 /\ tasks \in StoresAfter(last.before, last.before_fresh, last.user,
                                           SubSeq(calls, 1, k - 1))
            ELSE /\ n = Len(calls)
                 /\ \A i \in 1..n :
                       last.turn.invocations[i].exc = "ok" /\ ~calls[i].malformed

\* the second of three proposed calls raised after the first had completed
\* a task: the task stays completed, the third call was not executed and
\* the answer carries no record
C29_Witness ==
    /\ ProviderReplied
    /\ Len(last.provider.tool_calls) = 3
    /\ IsErrorAnswer(last.turn)
    /\ RaisedAt = 2
    /\ Len(last.turn.invocations) = 2
    /\ last.turn.tool_calls = <<>>
    /\ tasks # last.before
    /\ \E t \in tasks : t.completed /\ [t EXCEPT !.completed = FALSE] \in last.before

\* the process was started and tasks and messages were stored before
StartedWithData ==
    /\ last.op = "startup"
    /\ last.before # {}
    /\ last.before_messages # <<>>

====
